---- MODULE Spec2Model ----
(***************************************************************************)
(* A model of the resource handlers and of the project authorization of    *)
(* the CORE server (src/src/handler, src/src/auth, src/src/database).      *)
(*                                                                         *)
(* The metadata store is one function per collection, from the ids the     *)
(* server hands out to the stored document.  Every call of the database    *)
(* adapter is one step; a handler that makes several calls is a call in    *)
(* flight that other handlers interleave with between two of its steps.    *)
(***************************************************************************)
EXTENDS Integers, FiniteSets, Bags, TLC

(***************************************************************************)
(* Bounds of the model.                                                    *)
(***************************************************************************)
MaxDatasets == 1
MaxGroups == 1
MaxRevs == 2
MaxVersions == 1
MaxObjects == 1
MaxCalls == 2
MaxProjects == 2
MaxUsers == 2
MaxTokens == 1
MaxFailures == 2
MaxUploads == 2
MaxFanOut == 101
\* Datasets and versions that only calls made one after the other create.
MoreDatasets == 1
MoreVersions == 1

Datasets == 1..(MaxDatasets + MoreDatasets)
Groups == 1..MaxGroups
Revs == 1..MaxRevs
Versions == 1..(MaxVersions + MoreVersions)
Projects == 1..MaxProjects
Users == 1..MaxUsers
Tokens == 1..MaxTokens
ObjectIds == Revs \X (1..MaxObjects)

VARIABLES
    projects,    \* collection "project": id -> document
    tokens,      \* collection "APIToken": token string -> document
    datasets,    \* collection "Dataset": id -> document
    groups,      \* collection "ObjectGroup": id -> document
    revisions,   \* collection "ObjectGroupRevision": id -> document
    versions,    \* collection "DatasetVersion": id -> document
    s3deleted,   \* the objects the object store was asked to delete
    calls,       \* the handler calls in flight, a bag: calls have no identity
    ret,         \* the call that returned in the last step, if one did
    authz,       \* the last call of authorize and its result, if there was one
    uploads,     \* the multipart uploads of the object store: <<object, state>>
    rpc,         \* the call of the gRPC server that returned, if there was one
    goal,        \* the delete a client is about to call, and what it will leave
    objects,     \* the elements of the objects arrays of the revisions
    multiparts,  \* the upload ids the object store has created
    fanout       \* the FuturesUnordered of the fan-out that is running

vars == <<projects, tokens, datasets, groups, revisions, versions, s3deleted,
          calls, ret, authz, uploads, rpc, goal, objects, multiparts, fanout>>


\* What only the load handlers touch, and the count of a fan-out.
load == <<objects, multiparts, fanout>>

\* What the handlers below never touch: they do not authorize, and the
\* gRPC server does not call them.
server == <<projects, tokens, authz, uploads, rpc, goal>>
auth == <<server, load>>

(***************************************************************************)
(* Documents.  A document that was never inserted has status "none", one   *)
(* that was deleted has status "removed" and keeps the fields no update    *)
(* changes; ids are fresh UUIDs and are never handed out twice.  The other *)
(* statuses are those of models::common_models::Status.                    *)
(***************************************************************************)
Stored(doc) == doc.status \notin {"none", "removed"}

HandedOut(doc) == doc.status # "none"

NoProject == [status |-> "none", users |-> {}]

NoToken == [status |-> "none", user_id |-> 0, rights |-> {}, project_id |-> 0]

NoDataset == [status |-> "none", project_id |-> 0]

NoGroup ==
    [status |-> "none", dataset_id |-> 0, revision_counter |-> 0, head_id |-> 0]

NoRevision ==
    [status |-> "none", object_group_id |-> 0, datasete_id |-> 0,
     revision |-> 0, dataset_versions |-> {}, objects_count |-> 0]

NoVersion == [status |-> "none", dataset_id |-> 0, object_group_ids |-> {}]

DatasetStored(d) == Stored(datasets[d])

\* The embedded objects of a revision: the k-th object of revision r.
ObjectsOf(r) == {<<r, k>> : k \in 1..revisions[r].objects_count}

\* An element of an objects array.  Strings are sequences: <<>> is "", and
\* the n-th upload id the object store creates is <<n>>.  A DatasetObject is
\* a BSON document with the field upload_id; string is the element's value
\* when it is a BSON string.
NoObject == [bson |-> "none", id |-> <<>>, upload_id |-> <<>>, string |-> <<>>]

\* DatasetObject::new_from_proto_create: upload_id is "".
NewObject(id) ==
    [bson |-> "document", id |-> id, upload_id |-> <<>>, string |-> <<>>]

\* uuid::Uuid::new_v4(): an id no document ever had.
FreshIds(coll) == {i \in DOMAIN coll : coll[i].status = "none"}
NewId(coll) == CHOOSE i \in FreshIds(coll) : \A j \in FreshIds(coll) : i <= j

\* Fewer than n documents were ever stored in the collection.
Room(coll, n) == Cardinality(DOMAIN coll \ FreshIds(coll)) < n

(***************************************************************************)
(* A handler call in flight.  jobs are the futures of a delete cascade,    *)
(* each at the database call it makes next.                                *)
(***************************************************************************)
JobKeys == ({"rev"} \X Revs) \cup ({"grp"} \X Groups) \cup ({"ver"} \X Versions)

NoJobs == [k \in JobKeys |-> "none"]

NoCall ==
    [op |-> "none", pc |-> "none", id |-> 0, rids |-> {}, n |-> 0,
     floor |-> -1, object_group |-> NoGroup, jobs |-> NoJobs, issued |-> {},
     was |-> "none", object |-> NoObject, upload_id |-> <<>>]

NoRet ==
    [op |-> "none", id |-> 0, res |-> "none", n |-> 0, floor |-> -1,
     saw |-> {}, issued |-> {}, was |-> "none", object |-> NoObject,
     upload_id |-> <<>>]

\* A metadata entry: absent, or present with the user the OAuth2 server knows
\* the AccessToken as (0: it knows none), or with the API_TOKEN string.
Absent == [present |-> FALSE, value |-> 0]
Present(value) == [present |-> TRUE, value |-> value]

NoAuthz ==
    [resource |-> "none", right |-> "none", id |-> <<>>,
     AccessToken |-> Absent, API_TOKEN |-> Absent,
     project_id |-> [ok |-> FALSE, code |-> "none"], res |-> "none"]

\* No call of the gRPC server has returned.
NoRpc ==
    [name |-> "none", resource |-> "none", right |-> "none", id |-> <<>>,
     AccessToken |-> Absent, API_TOKEN |-> Absent, res |-> "none"]

\* The stores with no document.
NoStore ==
    [datasets |-> [d \in Datasets |-> NoDataset],
     groups |-> [g \in Groups |-> NoGroup],
     revisions |-> [r \in Revs |-> NoRevision],
     versions |-> [v \in Versions |-> NoVersion],
     s3deleted |-> {}]

\* No delete is planned.  final is the store the delete leaves when no call
\* fails, left the store its last failure left.
NoGoal ==
    [op |-> "none", id |-> 0, can |-> FALSE, failures |-> 0,
     final |-> NoStore, left |-> NoStore]

\* No fan-out is running.  todo are the requests the loop has not reached,
\* pushed the futures in the queue that were never polled, flying those
\* polled and not yet complete: the operations the store, the object store
\* or the authorization is working on.
NoFanOut == [of |-> "none", pc |-> "none", todo |-> 0, pushed |-> 0, flying |-> 0]

InFlight == BagToSet(calls)

\* The server takes a new call.
CanCall == BagCardinality(calls) < MaxCalls

Add(k) == calls (+) SetToBag({k})
Remove(k) == calls (-) SetToBag({k})
Replace(k, to) == (calls (-) SetToBag({k})) (+) SetToBag({to})

\* The largest revision number a create_revision_for_group on g has returned:
\* the insert of the revision is the call's last step.
Returned(g) ==
    LET ns == {revisions[r].revision :
                  r \in {x \in Revs : HandedOut(revisions[x])
                                      /\ revisions[x].object_group_id = g}}
    IN  IF ns = {} THEN -1 ELSE CHOOSE n \in ns : \A m \in ns : m <= n

Init ==
    /\ projects = [p \in Projects |-> NoProject]
    /\ tokens = [t \in Tokens |-> NoToken]
    /\ authz = NoAuthz
    /\ uploads = {}
    /\ rpc = NoRpc
    /\ goal = NoGoal
    /\ datasets = [d \in Datasets |-> NoDataset]
    /\ groups = [g \in Groups |-> NoGroup]
    /\ revisions = [r \in Revs |-> NoRevision]
    /\ versions = [v \in Versions |-> NoVersion]
    /\ s3deleted = {}
    /\ calls = EmptyBag
    /\ ret = NoRet
    /\ objects = [id \in ObjectIds |-> NewObject(id)]
    /\ multiparts = {}
    /\ fanout = NoFanOut

(***************************************************************************)
(* create_dataset: DatasetEntry::new_from_proto_create, then store.        *)
(***************************************************************************)
NewDataset(project_id) == [status |-> "Available", project_id |-> project_id]

CreateDatasetOf(n) ==
    \E project_id \in Projects :
        /\ Room(datasets, n)
        /\ LET d == NewId(datasets) IN
            /\ datasets' = [datasets EXCEPT ![d] = NewDataset(project_id)]
            /\ ret' = [NoRet EXCEPT !.op = "create_dataset", !.id = d,
                                    !.res = "ok"]
        /\ UNCHANGED <<auth, groups, revisions, versions, s3deleted, calls>>

CreateDataset == CreateDatasetOf(MaxDatasets)

(***************************************************************************)
(* create_object_group: ObjectGroup::new_from_proto_create, then store.    *)
(* The request names a dataset the caller was authorized for.              *)
(***************************************************************************)
\* head_id is left to Default: "", here the id 0 that no revision has.
NewObjectGroup(dataset_id) ==
    [status |-> "Initializing", dataset_id |-> dataset_id, revision_counter |-> 0,
     head_id |-> 0]

CreateObjectGroup ==
    \E d \in Datasets :
        /\ DatasetStored(d)
        /\ FreshIds(groups) # {}
        /\ LET g == NewId(groups) IN
            /\ groups' = [groups EXCEPT ![g] = NewObjectGroup(d)]
            /\ ret' = [NoRet EXCEPT !.op = "create_object_group", !.id = g, !.res = "ok"]
        /\ UNCHANGED <<auth, datasets, revisions, versions, s3deleted, calls>>

(***************************************************************************)
(* create_revision_for_group.                                              *)
(*   update_on_field: find_one_and_update with {$inc: {revision_counter:   *)
(*   1}} and no options; the driver's default ReturnDocument is Before,    *)
(*   so the document handed back is the one found, before the update.      *)
(*   ObjectGroupRevision::new_from_proto_create takes the revision number  *)
(*   from that document; store inserts the revision.                       *)
(***************************************************************************)
\* An update that leaves the counter as it was.
IncRevisionCounterLost(object_group) == object_group

\* ReturnDocument::After: the document as the update left it.
FindOneAndUpdateAfter(before, after) == after

IncRevisionCounter(object_group) ==
    [object_group EXCEPT !.revision_counter = @ + 1]

FindOneAndUpdateResult(before, after) == before

\* A revision numbered by the counter as the update left it.
NewRevisionAfterInc(object_group, object_group_id, nobj) ==
    [status |-> "Initializing", object_group_id |-> object_group_id,
     datasete_id |-> object_group.dataset_id,
     revision |-> object_group.revision_counter + 1,
     dataset_versions |-> {}, objects_count |-> nobj]

NewRevision(object_group, object_group_id, nobj) ==
    [status |-> "Initializing", object_group_id |-> object_group_id,
     datasete_id |-> object_group.dataset_id,
     revision |-> object_group.revision_counter,
     dataset_versions |-> {}, objects_count |-> nobj]

\* The call, up to its first database call.  update_on_field::<ObjectGroup>:
\* no document matches -> internal error.  floor is what earlier calls on the
\* group had returned when this one started.
CreateRevisionInc ==
    /\ CanCall
    /\ \E g \in Groups, nobj \in {0, MaxObjects} :
        /\ HandedOut(groups[g])
        /\ IF Stored(groups[g])
           THEN /\ groups' = [groups EXCEPT ![g] = IncRevisionCounter(@)]
                /\ calls' = Add([NoCall EXCEPT
                          !.op = "create_revision_for_group",
                          !.pc = "store", !.id = g, !.n = nobj,
                          !.floor = Returned(g),
                          !.object_group =
                              FindOneAndUpdateResult(groups[g], groups'[g])])
                /\ ret' = NoRet
           ELSE /\ groups' = groups
                /\ calls' = calls
                /\ ret' = [NoRet EXCEPT !.op = "create_revision_for_group",
                                        !.id = g, !.res = "internal"]
    /\ UNCHANGED <<auth, datasets, revisions, versions, s3deleted>>

CreateRevisionStore(k) ==
    /\ k.op = "create_revision_for_group" /\ k.pc = "store"
    /\ FreshIds(revisions) # {}
    /\ LET r == NewId(revisions)
           doc == NewRevision(k.object_group, k.id, k.n)
       IN
        /\ revisions' = [revisions EXCEPT ![r] = doc]
        /\ ret' = [NoRet EXCEPT !.op = "create_revision_for_group", !.id = r,
                                !.res = "ok", !.n = doc.revision,
                                !.floor = k.floor]
        /\ calls' = Remove(k)
    /\ UNCHANGED <<auth, datasets, groups, versions, s3deleted>>

(***************************************************************************)
(* The delete cascade.  A delete handler is a tree of futures: its own     *)
(* calls in sequence (pc) and, in a FuturesUnordered, one future per child *)
(* (jobs), which run interleaved.  The first child that fails makes the    *)
(* handler return that error at once (value?), dropping the other futures. *)
(***************************************************************************)
Job(k, kind, i) == k.jobs[<<kind, i>>]

SetJob(k, kind, i, to) == [k EXCEPT !.jobs[<<kind, i>>] = to]

\* The status the document of a delete had when the client called; "removed"
\* is a document that is no longer in the store.
Was(kind, i) ==
    CASE kind = "rev" -> revisions[i].status
      [] kind = "grp" -> groups[i].status
      [] kind = "ver" -> versions[i].status
      [] kind = "ds" -> datasets[i].status

\* A delete handler called by a client, after its first call of the store.
NewCall(op, kind, i, to) ==
    [NoCall EXCEPT !.op = op, !.pc = "jobs", !.id = i, !.was = Was(kind, i),
                   !.jobs = [NoJobs EXCEPT ![<<kind, i>>] = to]]

\* The call ends and ret tells what it returned.
Return(k, res, saw) ==
    /\ calls' = Remove(k)
    /\ ret' = [NoRet EXCEPT !.op = k.op, !.id = k.id, !.res = res,
                            !.saw = saw, !.issued = k.issued, !.was = k.was]

\* update_status / update_field with {$set: {status: ...}}: update_one by id,
\* which changes nothing when no document has the id.
SetStatus(doc, status) == IF Stored(doc) THEN [doc EXCEPT !.status = status] ELSE doc

\* delete::<T>: delete_one by id.
DeleteOne(doc) == IF Stored(doc) THEN [doc EXCEPT !.status = "removed"] ELSE doc

(***************************************************************************)
(* delete_object_revision(id).                                             *)
(***************************************************************************)
\* update_status::<ObjectGroupRevision>(id, Deleting): the first call of the
\* handler, called by a client or as a future of delete_object_group.
RevisionMark(r) ==
    /\ revisions' = [revisions EXCEPT ![r] = SetStatus(@, "Deleting")]
    /\ ret' = NoRet
    /\ UNCHANGED <<auth, datasets, groups, versions, s3deleted>>

\* A client calls delete_object_revision(r).
DeleteObjectRevision(r) ==
    /\ CanCall
    /\ HandedOut(revisions[r])
    /\ calls' = Add(NewCall("delete_object_revision", "rev", r, "read"))
    /\ RevisionMark(r)

\* delete_object_group calls delete_object_revision(r).
RevisionFuture(k, r) ==
    /\ Job(k, "rev", r) = "mark"
    /\ calls' = Replace(k, SetJob(k, "rev", r, "read"))
    /\ RevisionMark(r)

\* A check that lets every revision pass.
HasVersionsUnchecked(object_revision) == FALSE

\* The check of delete_object_revision on the revision it read.
HasVersions(object_revision) == object_revision.dataset_versions # {}

\* read_entry_by_id, then the check of dataset_versions, then
\* object_handler.delete_object(object.location) for every object read.  The
\* object store is asked in the step of the read: no handler reads the object
\* store, so no other call can tell the two apart.
RevisionRead(k, r) ==
    /\ Job(k, "rev", r) = "read"
    /\ IF ~Stored(revisions[r])
       THEN /\ Return(k, "not_found", {})
            /\ s3deleted' = s3deleted
       ELSE IF HasVersions(revisions[r])
       THEN /\ Return(k, "invalid_argument", revisions[r].dataset_versions)
            /\ s3deleted' = s3deleted
       ELSE /\ calls' = Replace(k, [k EXCEPT !.jobs[<<"rev", r>>] = "delete",
                                            !.issued = @ \cup ObjectsOf(r)])
            /\ s3deleted' = s3deleted \cup ObjectsOf(r)
            /\ ret' = NoRet
    /\ UNCHANGED <<auth, datasets, groups, revisions, versions>>

\* A delete by the parent's id: every revision of the group of r.
RevisionDeleteOfGroup(k, r) ==
    /\ Job(k, "rev", r) = "delete"
    /\ revisions' = [x \in Revs |->
          IF revisions[x].object_group_id = revisions[r].object_group_id
          THEN DeleteOne(revisions[x]) ELSE revisions[x]]
    /\ IF k.op = "delete_object_revision"
       THEN Return(k, "ok", {})
       ELSE /\ calls' = Replace(k, SetJob(k, "rev", r, "ok"))
            /\ ret' = NoRet
    /\ UNCHANGED <<auth, datasets, groups, versions, s3deleted>>

\* A delete that gives the revision's number back to the group's counter.
RevisionDeleteGivingBack(k, r) ==
    /\ Job(k, "rev", r) = "delete"
    /\ revisions' = [revisions EXCEPT ![r] = DeleteOne(@)]
    /\ groups' = [g \in Groups |->
          IF Stored(revisions[r]) /\ revisions[r].object_group_id = g
          THEN [groups[g] EXCEPT !.revision_counter = @ - 1]
          ELSE groups[g]]
    /\ IF k.op = "delete_object_revision"
       THEN Return(k, "ok", {})
       ELSE /\ calls' = Replace(k, SetJob(k, "rev", r, "ok"))
            /\ ret' = NoRet
    /\ UNCHANGED <<auth, datasets, versions, s3deleted>>

\* delete::<ObjectGroupRevision>({id})
RevisionDelete(k, r) ==
    /\ Job(k, "rev", r) = "delete"
    /\ revisions' = [revisions EXCEPT ![r] = DeleteOne(@)]
    /\ IF k.op = "delete_object_revision"
       THEN Return(k, "ok", {})
       ELSE /\ calls' = Replace(k, SetJob(k, "rev", r, "ok"))
            /\ ret' = NoRet
    /\ UNCHANGED <<auth, datasets, groups, versions, s3deleted>>

(***************************************************************************)
(* delete_object_group(id).                                                *)
(***************************************************************************)
\* update_status::<ObjectGroup>(id, Deleting)
GroupMark(g) ==
    /\ groups' = [groups EXCEPT ![g] = SetStatus(@, "Deleting")]
    /\ ret' = NoRet
    /\ UNCHANGED <<auth, datasets, revisions, versions, s3deleted>>

\* A client calls delete_object_group(g).
DeleteObjectGroup(g) ==
    /\ CanCall
    /\ HandedOut(groups[g])
    /\ calls' = Add(NewCall("delete_object_group", "grp", g, "read"))
    /\ GroupMark(g)

\* delete_dataset calls delete_object_group(g).
GroupFuture(k, g) ==
    /\ Job(k, "grp", g) = "mark"
    /\ calls' = Replace(k, SetJob(k, "grp", g, "read"))
    /\ GroupMark(g)

\* A read that passes over the revisions an earlier delete has marked.
RevisionsOfGroupNotDeleting(g) ==
    {r \in Revs : /\ Stored(revisions[r])
                  /\ revisions[r].status # "Deleting"
                  /\ revisions[r].object_group_id = g}

\* read_from_parent_entry::<ObjectGroupRevision>(id): object_group_id = id
RevisionsOfGroup(g) ==
    {r \in Revs : Stored(revisions[r]) /\ revisions[r].object_group_id = g}

GroupRead(k, g) ==
    /\ Job(k, "grp", g) = "read"
    /\ calls' = Replace(k, [k EXCEPT !.jobs =
          [j \in JobKeys |->
              IF j = <<"grp", g>> THEN "delete"
              ELSE IF j[1] = "rev" /\ j[2] \in RevisionsOfGroup(g) THEN "mark"
              ELSE @[j]]])
    /\ ret' = NoRet
    /\ UNCHANGED <<auth, datasets, groups, revisions, versions, s3deleted>>

\* A group future that does not wait for its revision futures.
ChildRevisionsNotAwaited(k, g) == TRUE

\* The revision futures the group's future waits for.
ChildRevisionsDone(k, g) ==
    \A r \in Revs :
        revisions[r].object_group_id = g => Job(k, "rev", r) \in {"none", "ok"}

\* delete::<ObjectGroup>({id}), once every revision future returned Ok.
GroupDelete(k, g) ==
    /\ Job(k, "grp", g) = "delete"
    /\ ChildRevisionsDone(k, g)
    /\ groups' = [groups EXCEPT ![g] = DeleteOne(@)]
    /\ IF k.op = "delete_object_group"
       THEN Return(k, "ok", {})
       ELSE /\ calls' = Replace(k, SetJob(k, "grp", g, "ok"))
            /\ ret' = NoRet
    /\ UNCHANGED <<auth, datasets, revisions, versions, s3deleted>>

(***************************************************************************)
(* delete_dataset_version(id).                                             *)
(***************************************************************************)
\* update_status::<DatasetVersion>(id, Deleting)
VersionMark(v) ==
    /\ versions' = [versions EXCEPT ![v] = SetStatus(@, "Deleting")]
    /\ ret' = NoRet
    /\ UNCHANGED <<auth, datasets, groups, revisions, s3deleted>>

\* A client calls delete_dataset_version(v).
DeleteDatasetVersion(v) ==
    /\ CanCall
    /\ HandedOut(versions[v])
    /\ calls' = Add(NewCall("delete_dataset_version", "ver", v, "pull"))
    /\ VersionMark(v)

\* delete_dataset calls delete_dataset_version(v).
VersionFuture(k, v) ==
    /\ Job(k, "ver", v) = "mark"
    /\ calls' = Replace(k, SetJob(k, "ver", v, "pull"))
    /\ VersionMark(v)

\* An update that empties dataset_versions.
PullAll(doc, v) == [doc EXCEPT !.dataset_versions = {}]

\* {$pull: {dataset_versions: id}}
Pull(doc, v) == [doc EXCEPT !.dataset_versions = @ \ {v}]

\* The documents an update_many with {$pull: {dataset_versions: v}} modifies.
Modified(v) ==
    {r \in Revs : Stored(revisions[r]) /\ v \in revisions[r].dataset_versions}

\* update_fields::<ObjectGroupRevision>({}, $pull): update_many over all.
\* For the call of a client, rids keeps the revisions the update modified.
VersionPull(k, v) ==
    /\ Job(k, "ver", v) = "pull"
    /\ revisions' = [r \in Revs |->
          IF Stored(revisions[r]) THEN Pull(revisions[r], v) ELSE revisions[r]]
    /\ calls' = Replace(k, [SetJob(k, "ver", v, "delete") EXCEPT
                                !.rids = IF k.op = "delete_dataset_version"
                                         THEN Modified(v) ELSE @])
    /\ ret' = NoRet
    /\ UNCHANGED <<auth, datasets, groups, versions, s3deleted>>

\* delete::<DatasetVersion>({id})
VersionDelete(k, v) ==
    /\ Job(k, "ver", v) = "delete"
    /\ versions' = [versions EXCEPT ![v] = DeleteOne(@)]
    /\ IF k.op = "delete_dataset_version"
       THEN Return(k, "ok", {})
       ELSE /\ calls' = Replace(k, SetJob(k, "ver", v, "ok"))
            /\ ret' = NoRet
    /\ UNCHANGED <<auth, datasets, groups, revisions, s3deleted>>

(***************************************************************************)
(* delete_dataset(id).                                                     *)
(***************************************************************************)
\* A client calls delete_dataset(d):
\* update_status::<DatasetEntry>(id, Deleting)
DeleteDataset(d) ==
    /\ CanCall
    /\ HandedOut(datasets[d])
    /\ datasets' = [datasets EXCEPT ![d] = SetStatus(@, "Deleting")]
    /\ calls' = Add([NoCall EXCEPT !.op = "delete_dataset",
                                  !.pc = "versions", !.id = d,
                                  !.was = Was("ds", d)])
    /\ ret' = NoRet
    /\ UNCHANGED <<auth, groups, revisions, versions, s3deleted>>

DatasetMark == \E d \in Datasets : DeleteDataset(d)

\* read_from_parent_entry::<DatasetVersion>(id): dataset_id = id
VersionsOfDataset(d) ==
    {v \in Versions : Stored(versions[v]) /\ versions[v].dataset_id = d}

\* read_from_parent_entry::<ObjectGroup>(id): dataset_id = id
GroupsOfDataset(d) ==
    {g \in Groups : Stored(groups[g]) /\ groups[g].dataset_id = d}

DatasetVersions(k) ==
    /\ k.op = "delete_dataset" /\ k.pc = "versions"
    /\ calls' = Replace(k, [k EXCEPT !.pc = "groups", !.jobs =
          [j \in JobKeys |->
              IF j[1] = "ver" /\ j[2] \in VersionsOfDataset(k.id)
              THEN "mark" ELSE @[j]]])
    /\ ret' = NoRet
    /\ UNCHANGED <<auth, datasets, groups, revisions, versions, s3deleted>>

\* The read of the groups, once every version future returned Ok.
DatasetGroups(k) ==
    /\ k.op = "delete_dataset" /\ k.pc = "groups"
    /\ \A v \in Versions : Job(k, "ver", v) \in {"none", "ok"}
    /\ calls' = Replace(k, [k EXCEPT !.pc = "delete", !.jobs =
          [j \in JobKeys |->
              IF j[1] = "grp" /\ j[2] \in GroupsOfDataset(k.id)
              THEN "mark" ELSE @[j]]])
    /\ ret' = NoRet
    /\ UNCHANGED <<auth, datasets, groups, revisions, versions, s3deleted>>

\* delete::<DatasetEntry>({id}), once every group future returned Ok.
DatasetDelete(k) ==
    /\ k.op = "delete_dataset" /\ k.pc = "delete"
    /\ \A g \in Groups : Job(k, "grp", g) \in {"none", "ok"}
    /\ datasets' = [datasets EXCEPT ![k.id] = DeleteOne(@)]
    /\ Return(k, "ok", {})
    /\ UNCHANGED <<auth, groups, revisions, versions, s3deleted>>

(***************************************************************************)
(* create_datatset_version(version_request).                               *)
(*   DatasetVersion::new_from_proto_create takes object_group_ids from     *)
(*   request.object_group_ids; the revisions to tag are                    *)
(*   request.revision_ids, in chunks of 1000, one update_field (an         *)
(*   update_one) per chunk with {id: {$in: chunk}} and                     *)
(*   {$addToSet: {dataset_versions: version.id}}.                          *)
(***************************************************************************)
NewDatasetVersion(dataset_id, object_group_ids) ==
    [status |-> "Available", dataset_id |-> dataset_id,
     object_group_ids |-> object_group_ids]

\* revision_ids.chunks(1000): a request of the model has fewer ids than a
\* chunk holds, so it is one chunk, and none when it has no id.
Chunks(revision_ids) == IF revision_ids = {} THEN {} ELSE {revision_ids}

\* {$addToSet: {dataset_versions: v}}
AddToSet(doc, v) == [doc EXCEPT !.dataset_versions = @ \cup {v}]

\* The documents update_one may change for the filter {id: {$in: chunk}}: it
\* updates one document that matches, whichever the store finds first.
UpdateOneTargets(chunk) ==
    LET match == {r \in chunk : Stored(revisions[r])}
    IN  IF match = {} THEN {{}} ELSE {{r} : r \in match}

HandedOutRevisions == {r \in Revs : HandedOut(revisions[r])}

\* store(dataset_version_entry); with no revision ids no update follows.
ReleaseStoreOf(n) ==
    /\ CanCall
    /\ Room(versions, n)
    /\ \E d \in Datasets, rids \in SUBSET HandedOutRevisions,
          ogids \in SUBSET HandedOutRevisions :
        LET v == NewId(versions) IN
        /\ HandedOut(datasets[d])
        /\ versions' = [versions EXCEPT ![v] = NewDatasetVersion(d, ogids)]
        /\ IF Chunks(rids) = {}
           THEN /\ calls' = calls
                /\ ret' = [NoRet EXCEPT !.op = "create_datatset_version",
                                        !.id = v, !.res = "ok"]
           ELSE /\ calls' = Add([NoCall EXCEPT
                          !.op = "create_datatset_version",
                          !.pc = "update", !.id = v, !.rids = rids])
                /\ ret' = NoRet
    /\ UNCHANGED <<auth, datasets, groups, revisions, s3deleted>>

ReleaseStore == ReleaseStoreOf(MaxVersions)

ReleaseUpdate(k) ==
    /\ k.op = "create_datatset_version" /\ k.pc = "update"
    /\ \E chunk \in Chunks(k.rids) : \E target \in UpdateOneTargets(chunk) :
        revisions' = [r \in Revs |->
            IF r \in target THEN AddToSet(revisions[r], k.id) ELSE revisions[r]]
    /\ ret' = [NoRet EXCEPT !.op = "create_datatset_version", !.id = k.id,
                            !.res = "ok", !.saw = k.rids]
    /\ calls' = Remove(k)
    /\ UNCHANGED <<auth, datasets, groups, versions, s3deleted>>

(***************************************************************************)
(* finish_object_group_upload(id): update_status::<ObjectGroup>(id,        *)
(* Available).                                                             *)
(***************************************************************************)
\* A finish that applies the transition of the group to its revisions.
FinishObjectGroupUploadWithRevisions ==
    \E g \in Groups :
        /\ HandedOut(groups[g])
        /\ groups' = [groups EXCEPT ![g] = SetStatus(@, "Available")]
        /\ revisions' = [r \in Revs |->
              IF revisions[r].object_group_id = g
              THEN SetStatus(revisions[r], "Available") ELSE revisions[r]]
        /\ ret' = [NoRet EXCEPT !.op = "finish_object_group_upload", !.id = g,
                                !.res = "ok"]
        /\ UNCHANGED <<auth, datasets, versions, s3deleted, calls>>

FinishObjectGroupUpload ==
    \E g \in Groups :
        /\ HandedOut(groups[g])
        /\ groups' = [groups EXCEPT ![g] = SetStatus(@, "Available")]
        /\ ret' = [NoRet EXCEPT !.op = "finish_object_group_upload", !.id = g,
                                !.res = "ok"]
        /\ UNCHANGED <<auth, datasets, revisions, versions, s3deleted, calls>>

(***************************************************************************)
(* init_multipart_upload(id): find_object, the object store's              *)
(* init_multipart_upload, update_field::<ObjectGroupRevision> with the     *)
(* query {"objects.id": id} and the update {"objects.$": upload_id}; the   *)
(* handler answers with the object find_object gave it.                    *)
(***************************************************************************)
\* find_one({"objects.id": id}) with the projection {"objects.$": 1}: the
\* element that is a document with the id, of a revision the collection holds.
find_object(id) ==
    IF /\ Stored(revisions[id[1]])
       /\ id \in ObjectsOf(id[1])
       /\ objects[id].bson = "document"
    THEN [ok |-> TRUE, object |-> objects[id]]
    ELSE [ok |-> FALSE, object |-> NoObject]

\* CreateMultipartUpload: the object store answers with an upload id of its
\* own making.
NewUploadId == <<Cardinality(multiparts) + 1>>

\* What the update makes of the element the query matched: the update names
\* the element, objects.$, and gives the upload id as its value.
UploadIdUpdate(element, upload_id) ==
    [bson |-> "string", id |-> <<>>, upload_id |-> <<>>, string |-> upload_id]

InitMultipartFind ==
    /\ CanCall
    /\ \E id \in ObjectIds :
        LET found == find_object(id) IN
        IF found.ok
        THEN /\ calls' = Add([NoCall EXCEPT !.op = "init_multipart_upload",
                                            !.pc = "init",
                                            !.object = found.object])
             /\ ret' = NoRet
        ELSE /\ calls' = calls
             /\ ret' = [NoRet EXCEPT !.op = "init_multipart_upload",
                                     !.object = [NoObject EXCEPT !.id = id],
                                     !.res = "internal"]
    /\ UNCHANGED <<auth, datasets, groups, revisions, versions, s3deleted>>

\* An error of the object store is the handler's answer.
InitMultipartInit(k) ==
    /\ k.op = "init_multipart_upload" /\ k.pc = "init"
    /\ Cardinality(multiparts) < MaxUploads
    /\ \E failed \in BOOLEAN :
        IF failed
        THEN /\ multiparts' = multiparts
             /\ calls' = Remove(k)
             /\ ret' = [NoRet EXCEPT !.op = k.op, !.object = k.object,
                                     !.res = "internal"]
        ELSE /\ multiparts' = multiparts \cup {NewUploadId}
             /\ calls' = Replace(k, [k EXCEPT !.pc = "update",
                                              !.upload_id = NewUploadId])
             /\ ret' = NoRet
    /\ UNCHANGED <<server, objects, fanout, datasets, groups, revisions,
                   versions, s3deleted>>

\* update_one: an error of the store is the handler's answer; otherwise the
\* first element the query matches is updated, if there is one, and the
\* handler does not look at the count of modified documents.
InitMultipartUpdate(k) ==
    /\ k.op = "init_multipart_upload" /\ k.pc = "update"
    /\ \E failed \in BOOLEAN :
        IF failed
        THEN /\ objects' = objects
             /\ ret' = [NoRet EXCEPT !.op = k.op, !.object = k.object,
                                     !.upload_id = k.upload_id,
                                     !.res = "internal"]
        ELSE /\ objects' =
                  IF find_object(k.object.id).ok
                  THEN [objects EXCEPT ![k.object.id] =
                            UploadIdUpdate(@, k.upload_id)]
                  ELSE objects
             /\ ret' = [NoRet EXCEPT !.op = k.op, !.object = k.object,
                                     !.upload_id = k.upload_id, !.res = "ok"]
    /\ calls' = Remove(k)
    /\ UNCHANGED <<server, multiparts, fanout, datasets, groups, revisions,
                   versions, s3deleted>>

(***************************************************************************)
(* ProjectAuthzHandler::authorize(metadata, resource, right, id).          *)
(*   Every document's id is a UUID of its own: <<collection, number>>, so  *)
(*   that the id of a document of one collection is the id of no document  *)
(*   of another.  The embedded objects have ids of their own as well.      *)
(***************************************************************************)
Rights == {"Read", "Write"}

Resources ==
    {"Project", "Dataset", "DatasetVersion", "ObjectGroup",
     "ObjectGroupRevision", "Object"}

Uuid(collection, i) == <<collection, i>>

\* The ids a client can send for a resource.
ResourceIds(resource) ==
    CASE resource = "Project" -> {Uuid("project", i) : i \in Projects}
      [] resource = "Dataset" -> {Uuid("Dataset", i) : i \in 1..MaxDatasets}
      [] resource = "DatasetVersion" ->
                           {Uuid("DatasetVersion", i) : i \in 1..MaxVersions}
      [] resource = "ObjectGroup" -> {Uuid("ObjectGroup", i) : i \in Groups}
      [] resource = "ObjectGroupRevision" ->
            {Uuid("ObjectGroupRevision", i) : i \in Revs}
      [] resource = "Object" ->
            {Uuid("Object", <<r, k>>) : r \in Revs, k \in 1..MaxObjects}

Collection(name) ==
    CASE name = "project" -> projects
      [] name = "Dataset" -> datasets
      [] name = "DatasetVersion" -> versions
      [] name = "ObjectGroup" -> groups
      [] name = "ObjectGroupRevision" -> revisions

NotFound == [status |-> "not_found"]

\* find_one_by_key::<T>({id}): the document of T's collection that has the
\* id, with the id it has, or not_found.
FindOneByKey(collection, id) ==
    IF /\ id[1] = collection
       /\ id[2] \in DOMAIN Collection(collection)
       /\ Stored(Collection(collection)[id[2]])
    THEN [doc |-> Collection(collection)[id[2]], id |-> id, status |-> "found"]
    ELSE NotFound

Err(code) == [ok |-> FALSE, code |-> code]
Ok(id) == [ok |-> TRUE, id |-> id]

project_id_of_dataset(id) ==
    LET dataset == FindOneByKey("Dataset", id)
    IN  IF dataset.status = "not_found" THEN Err("not_found")
        ELSE Ok(Uuid("project", dataset.doc.project_id))

\* The dataset is looked up by dataset_group.id.
project_id_of_object_group(id) ==
    LET dataset_group == FindOneByKey("ObjectGroup", id)
    IN  IF dataset_group.status = "not_found" THEN Err("not_found")
        ELSE project_id_of_dataset(dataset_group.id)

\* The revision is looked up by the id given, and the dataset by the id of
\* the revision found.
project_id_of_object(id) ==
    LET dataset_group == FindOneByKey("ObjectGroupRevision", id)
    IN  IF dataset_group.status = "not_found" THEN Err("not_found")
        ELSE project_id_of_dataset(dataset_group.id)

project_id_of_dataset_version(id) ==
    LET dataset_version == FindOneByKey("DatasetVersion", id)
    IN  IF dataset_version.status = "not_found" THEN Err("not_found")
        ELSE project_id_of_dataset(Uuid("Dataset", dataset_version.doc.dataset_id))

project_id_of_object_group_revision(id) ==
    LET object_groups_version == FindOneByKey("ObjectGroupRevision", id)
    IN  IF object_groups_version.status = "not_found" THEN Err("not_found")
        ELSE project_id_of_dataset(
                 Uuid("Dataset", object_groups_version.doc.datasete_id))

\* user_id_from_access_token: the OAuth2 userinfo lookup gives the user of a
\* valid token and fails for any other.
user_id_from_access_token(metadata) ==
    IF metadata.AccessToken.present /\ metadata.AccessToken.value \in Users
    THEN Ok(metadata.AccessToken.value)
    ELSE Err("internal")

\* Vec::contains on the rights of a user, a list.
contains(rights, right) == \E i \in DOMAIN rights : rights[i] = right

authorize_from_user_token(id, metadata, right) ==
    LET project == FindOneByKey("project", id)
        user_id == user_id_from_access_token(metadata)
    IN  IF project.status = "not_found" THEN "internal"
        ELSE IF ~user_id.ok THEN user_id.code
        ELSE IF \E user \in project.doc.users :
                    user.user_id = user_id.id /\ contains(user.rights, right)
        THEN "ok"
        ELSE "permission_denied"

\* project_id_from_api_token: find_one_by_key::<APIToken>({token})
project_id_from_api_token(metadata) ==
    IF /\ metadata.API_TOKEN.present
       /\ metadata.API_TOKEN.value \in Tokens
       /\ Stored(tokens[metadata.API_TOKEN.value])
    THEN tokens[metadata.API_TOKEN.value]
    ELSE NotFound

authorize_from_api_token(metadata, project_id, requested_rights) ==
    LET db_token == project_id_from_api_token(metadata)
    IN  IF db_token.status = "not_found" THEN "unauthenticated"
        ELSE IF Uuid("project", db_token.project_id) # project_id
        THEN "permission_denied"
        ELSE IF \E requested_right \in requested_rights :
                    requested_right \notin db_token.rights
        THEN "permission_denied"
        ELSE "ok"

\* The match on the resource at the head of authorize.
project_id_result(resource, id) ==
    CASE resource = "Project" -> Ok(id)
      [] resource = "Dataset" -> project_id_of_dataset(id)
      [] resource = "DatasetVersion" -> project_id_of_dataset_version(id)
      [] resource = "ObjectGroup" -> project_id_of_object_group(id)
      [] resource = "Object" -> project_id_of_object(id)
      [] resource = "ObjectGroupRevision" ->
            project_id_of_object_group_revision(id)

\* authorize answering status internal for an id that does not resolve.
authorizeUnresolvedInternal(metadata, resource, right, id) ==
    IF ~project_id_result(resource, id).ok THEN "internal"
    ELSE IF metadata.AccessToken.present
    THEN authorize_from_user_token(id, metadata, right)
    ELSE IF metadata.API_TOKEN.present
    THEN authorize_from_api_token(metadata, project_id_result(resource, id).id,
                                  {right})
    ELSE "unauthenticated"

authorize(metadata, resource, right, id) ==
    IF ~project_id_result(resource, id).ok THEN "unauthenticated"
    ELSE IF metadata.AccessToken.present
    THEN authorize_from_user_token(id, metadata, right)
    ELSE IF metadata.API_TOKEN.present
    THEN authorize_from_api_token(metadata, project_id_result(resource, id).id,
                                  {right})
    ELSE "unauthenticated"

\* The metadata of a call.
Metadata ==
    [AccessToken : {Absent, Present(0)} \cup {Present(u) : u \in Users},
     API_TOKEN : {Absent} \cup {Present(t) : t \in Tokens}]

\* One call of authorize on the store drawn: it reads the store and changes
\* nothing, so a second call would show nothing the first did not.
Authorize ==
    \E metadata \in Metadata, resource \in Resources, right \in Rights :
        \E id \in ResourceIds(resource) :
            /\ authz = NoAuthz
            /\ authz' = [resource |-> resource, right |-> right, id |-> id,
                         AccessToken |-> metadata.AccessToken,
                         API_TOKEN |-> metadata.API_TOKEN,
                         project_id |-> project_id_result(resource, id),
                         res |-> authorize(metadata, resource, right, id)]
            /\ UNCHANGED <<projects, tokens, datasets, groups, revisions,
                           versions, s3deleted, load, calls, ret, uploads, rpc, goal>>

(***************************************************************************)
(* The stores authorize is checked on: the documents the create handlers   *)
(* write.  create_project and add_user give a user both rights;            *)
(* create_api_token takes the rights from its caller.                      *)
(***************************************************************************)
\* add_user: the user document of the $addToSet.
User(user_id) == [user_id |-> user_id, rights |-> <<"Read", "Write">>]

\* $addToSet: the array gets the document unless it holds an equal one;
\* documents are equal when their fields and the elements of their arrays
\* are, in order.  The array users is the set of its documents.
AddToSetUsers(project, user) == [project EXCEPT !.users = @ \cup {user}]

\* ProjectEntry::new_from_proto_create: users is the creator alone.
NewProject(creator) ==
    [status |-> "stored",
     users |-> {[user_id |-> creator, rights |-> <<"Write", "Read">>]}]

\* A project after the add_user calls for the users us.
ProjectWith(creator, us) ==
    [NewProject(creator) EXCEPT !.users = @ \cup {User(u) : u \in us}]

NewToken(user_id, rights, project_id) ==
    [status |-> "stored", user_id |-> user_id, rights |-> rights,
     project_id |-> project_id]

InitAuth ==
    /\ projects \in [Projects -> {NoProject} \cup
                (UNION {{ProjectWith(c, us) : us \in {{}, Users \ {c}}} :
                           c \in Users})]
    /\ tokens \in [Tokens -> {NoToken} \cup
                      {NewToken(1, rs, p) : rs \in SUBSET Rights, p \in Projects}]
    /\ \E ds \in SUBSET (1..MaxDatasets), gs \in SUBSET Groups,
          rs \in SUBSET {1}, vs \in SUBSET (1..MaxVersions), p \in Projects :
        /\ gs # {} => ds # {}
        /\ vs # {} => ds # {}
        /\ rs # {} => gs # {}
        /\ datasets = [d \in Datasets |->
                          IF d \in ds THEN NewDataset(p) ELSE NoDataset]
        /\ groups = [g \in Groups |->
              IF g \notin gs THEN NoGroup
              ELSE IF rs = {} THEN NewObjectGroup(1)
              ELSE IncRevisionCounter(NewObjectGroup(1))]
        /\ revisions = [r \in Revs |->
              IF r \in rs THEN NewRevision(NewObjectGroup(1), 1, MaxObjects)
              ELSE NoRevision]
        /\ versions = [v \in Versions |->
              IF v \in vs THEN NewDatasetVersion(1, {}) ELSE NoVersion]
    /\ s3deleted = {}
    /\ calls = EmptyBag
    /\ ret = NoRet
    /\ authz = NoAuthz
    /\ uploads = {}
    /\ rpc = NoRpc
    /\ goal = NoGoal
    /\ objects = [id \in ObjectIds |-> NewObject(id)]
    /\ multiparts = {}
    /\ fanout = NoFanOut

SpecAuth == InitAuth /\ [][Authorize]_vars

(***************************************************************************)
(* The gRPC server (server/*.rs): every method authorizes the caller with  *)
(* the AuthHandler and then does its work on the stores.  A method is one  *)
(* step: authorization, and the writes of its body when the authorization  *)
(* succeeds.  The answer recorded is that of the authorization, "ok" when  *)
(* the body ran; what the body reads for its response is not modelled.     *)
(* update_dataset_field, delete_dataset, delete_dataset_version,           *)
(* delete_project, get_project and delete_api_token are unimplemented and  *)
(* have no action.  Resource::ObjectGroupVersion of the server is          *)
(* Resource::ObjectGroupRevision of the AuthHandler.                       *)
(***************************************************************************)
\* user_id_from_api_token: find_one_by_key::<APIToken>({token})
user_id_from_api_token(metadata) ==
    LET db_token == project_id_from_api_token(metadata)
    IN  IF db_token.status = "not_found" THEN Err("unauthenticated")
        ELSE Ok(db_token.user_id)

user_id(metadata) ==
    IF metadata.AccessToken.present THEN user_id_from_access_token(metadata)
    ELSE IF metadata.API_TOKEN.present THEN user_id_from_api_token(metadata)
    ELSE Err("unauthenticated")

\* The answer of a method, with the authorization it asked for.
Answer(name, resource, right, id, metadata, res) ==
    [name |-> name, resource |-> resource, right |-> right, id |-> id,
     AccessToken |-> metadata.AccessToken, API_TOKEN |-> metadata.API_TOKEN,
     res |-> res]

\* The calls are looked at one at a time, each on the store drawn.
Idle == rpc = NoRpc

\* The methods whose body writes to neither store, with the resource and the
\* right they authorize and the kind of document their request names.
StatelessRpcs ==
    {"get_dataset", "get_dataset_versions", "get_dataset_object_groups",
     "get_current_object_group_revisions", "get_datset_version_revisions",
     "get_dataset_version", "get_object_group", "get_current_object_group",
     "get_object_group_version", "get_object_group_versions",
     "create_upload_link", "create_download_link",
     "get_multipart_upload_link", "get_project_datasets"}

RpcResource(name) ==
    CASE name \in {"get_dataset", "get_project_datasets"} -> "Project"
      [] name \in {"get_dataset_versions", "get_dataset_object_groups",
                   "get_current_object_group_revisions"} -> "Dataset"
      [] name \in {"get_datset_version_revisions", "get_dataset_version"} ->
            "DatasetVersion"
      [] name \in {"get_object_group", "get_current_object_group"} ->
            "ObjectGroup"
      [] name = "get_object_group_version" -> "ObjectGroupRevision"
      [] name \in {"get_object_group_versions", "create_upload_link",
                   "create_download_link", "get_multipart_upload_link"} ->
            "Object"

RpcRight(name) ==
    IF name \in {"get_datset_version_revisions", "get_dataset_version",
                 "create_upload_link"}
    THEN "Write" ELSE "Read"

\* The document the id of the request is the id of.
RpcArg(name) ==
    CASE name = "get_dataset" -> "Dataset"
      [] name = "get_object_group_versions" -> "ObjectGroup"
      [] OTHER -> RpcResource(name)

StatelessRpc ==
    \E name \in StatelessRpcs, metadata \in Metadata :
        \E id \in ResourceIds(RpcArg(name)) :
            /\ Idle
            /\ rpc' = Answer(name, RpcResource(name), RpcRight(name), id,
                             metadata,
                             authorize(metadata, RpcResource(name),
                                       RpcRight(name), id))
            /\ UNCHANGED <<projects, tokens, datasets, groups, revisions,
                           versions, s3deleted, load, calls, ret, authz, uploads, goal>>

\* The methods that ask for the caller's user id and read the documents of
\* that user.
UserIdRpcs == {"get_user_projects", "get_api_token"}

UserIdRpc ==
    \E name \in UserIdRpcs, metadata \in Metadata :
        LET user == user_id(metadata) IN
        /\ Idle
        /\ rpc' = Answer(name, "none", "none", <<>>, metadata,
                         IF user.ok THEN "ok" ELSE user.code)
        /\ UNCHANGED <<projects, tokens, datasets, groups, revisions,
                       versions, s3deleted, load, calls, ret, authz, uploads, goal>>

create_project ==
    \E metadata \in Metadata :
        LET user == user_id(metadata) IN
        /\ Idle
        /\ user.ok => FreshIds(projects) # {}
        /\ projects' =
              IF user.ok
              THEN [projects EXCEPT ![NewId(projects)] = NewProject(user.id)]
              ELSE projects
        /\ rpc' = Answer("create_project", "none", "none", <<>>, metadata,
                         IF user.ok THEN "ok" ELSE user.code)
        /\ UNCHANGED <<tokens, datasets, groups, revisions, versions,
                       s3deleted, load, calls, ret, authz, uploads, goal>>

\* add_user: update_one({id: project_id}, {$addToSet: {users: user}})
add_user_to_project ==
    \E metadata \in Metadata, id \in ResourceIds("Project"), u \in Users :
        LET res == authorize(metadata, "Project", "Write", id) IN
        /\ Idle
        /\ projects' =
              IF res = "ok" /\ Stored(projects[id[2]])
              THEN [projects EXCEPT ![id[2]] = AddToSetUsers(@, User(u))]
              ELSE projects
        /\ rpc' = Answer("add_user_to_project", "Project", "Write", id,
                         metadata, res)
        /\ UNCHANGED <<tokens, datasets, groups, revisions, versions,
                       s3deleted, load, calls, ret, authz, uploads, goal>>

create_api_token ==
    \E metadata \in Metadata, id \in ResourceIds("Project") :
        LET res == authorize(metadata, "Project", "Write", id)
            user == user_id(metadata)
            stores == res = "ok" /\ user.ok
        IN
        /\ Idle
        /\ stores => FreshIds(tokens) # {}
        /\ tokens' =
              IF stores
              THEN [tokens EXCEPT ![NewId(tokens)] =
                       NewToken(user.id, {"Write", "Read"}, id[2])]
              ELSE tokens
        /\ rpc' = Answer("create_api_token", "Project", "Write", id, metadata,
                         IF res = "ok" /\ ~user.ok THEN user.code ELSE res)
        /\ UNCHANGED <<projects, datasets, groups, revisions, versions,
                       s3deleted, load, calls, ret, authz, uploads, goal>>

create_dataset ==
    \E metadata \in Metadata, id \in ResourceIds("Project") :
        LET res == authorize(metadata, "Project", "Write", id) IN
        /\ Idle
        /\ res = "ok" => Room(datasets, MaxDatasets)
        /\ datasets' =
              IF res = "ok"
              THEN [datasets EXCEPT ![NewId(datasets)] = NewDataset(id[2])]
              ELSE datasets
        /\ rpc' = Answer("create_dataset", "Project", "Write", id, metadata, res)
        /\ UNCHANGED <<projects, tokens, groups, revisions, versions,
                       s3deleted, load, calls, ret, authz, uploads, goal>>

\* The group is stored, and with it its first version when the request has
\* one.
\* update_field::<ObjectGroup, String>("id", id, "head_id", version id)
SetHeadId(object_group, head_id) == [object_group EXCEPT !.head_id = head_id]

create_object_group_with_version ==
    \E metadata \in Metadata, id \in ResourceIds("Dataset"),
       object_group_version \in BOOLEAN :
        LET res == authorize(metadata, "Dataset", "Write", id) IN
        /\ Idle
        /\ res = "ok" => FreshIds(groups) # {}
        /\ (res = "ok" /\ object_group_version) => FreshIds(revisions) # {}
        /\ groups' =
              IF res = "ok"
              THEN [groups EXCEPT ![NewId(groups)] =
                       IF object_group_version
                       THEN SetHeadId(NewObjectGroup(id[2]), NewId(revisions))
                       ELSE NewObjectGroup(id[2])]
              ELSE groups
        /\ revisions' =
              IF res = "ok" /\ object_group_version
              THEN [revisions EXCEPT ![NewId(revisions)] =
                       NewRevision(NewObjectGroup(id[2]), NewId(groups),
                                   MaxObjects)]
              ELSE revisions
        /\ rpc' = Answer("create_object_group_with_version", "Dataset",
                         "Write", id, metadata, res)
        /\ UNCHANGED <<projects, tokens, datasets, versions, s3deleted, load, calls,
                       ret, authz, uploads, goal>>

\* find_one_by_key of the group: internal when there is none.
add_version_to_object_group ==
    \E metadata \in Metadata, id \in ResourceIds("ObjectGroup") :
        LET res == authorize(metadata, "ObjectGroup", "Write", id)
            object_group == FindOneByKey("ObjectGroup", id)
            stores == res = "ok" /\ object_group.status = "found"
        IN
        /\ Idle
        /\ stores => FreshIds(revisions) # {}
        /\ revisions' =
              IF stores
              THEN [revisions EXCEPT ![NewId(revisions)] =
                       NewRevision(object_group.doc, id[2], MaxObjects)]
              ELSE revisions
        /\ groups' =
              IF stores
              THEN [groups EXCEPT ![id[2]] = SetHeadId(@, NewId(revisions))]
              ELSE groups
        /\ rpc' = Answer("add_version_to_object_group", "ObjectGroup",
                         "Write", id, metadata,
                         IF res = "ok" /\ ~stores THEN "internal" ELSE res)
        /\ UNCHANGED <<projects, tokens, datasets, versions,
                       s3deleted, load, calls, ret, authz, uploads, goal>>

\* update_field::<ObjectGroup>({id: id}, status, Available), with the id of
\* the request.
finish_object_upload ==
    \E metadata \in Metadata, id \in ResourceIds("Object") :
        LET res == authorize(metadata, "Object", "Read", id) IN
        /\ Idle
        /\ groups' =
              [g \in Groups |->
                  IF res = "ok" /\ Uuid("ObjectGroup", g) = id
                  THEN SetStatus(groups[g], "Available") ELSE groups[g]]
        /\ rpc' = Answer("finish_object_upload", "Object", "Read", id,
                         metadata, res)
        /\ UNCHANGED <<projects, tokens, datasets, revisions, versions,
                       s3deleted, load, calls, ret, authz, uploads, goal>>

\* init_multipart_upload(object), and the upload id written to the object.
start_multipart_upload ==
    \E metadata \in Metadata, id \in ResourceIds("Object") :
        LET res == authorize(metadata, "Object", "Read", id) IN
        /\ Idle
        /\ uploads' = IF res = "ok" THEN uploads \cup {<<id, "started">>}
                      ELSE uploads
        /\ rpc' = Answer("start_multipart_upload", "Object", "Read", id,
                         metadata, res)
        /\ UNCHANGED <<projects, tokens, datasets, groups, revisions,
                       versions, s3deleted, load, calls, ret, authz, goal>>

\* finish_multipart_upload(location, parts, upload_id)
complete_multipart_upload ==
    \E metadata \in Metadata, id \in ResourceIds("Object") :
        LET res == authorize(metadata, "Object", "Read", id) IN
        /\ Idle
        /\ uploads' = IF res = "ok" THEN uploads \cup {<<id, "finished">>}
                      ELSE uploads
        /\ rpc' = Answer("complete_multipart_upload", "Object", "Read", id,
                         metadata, res)
        /\ UNCHANGED <<projects, tokens, datasets, groups, revisions,
                       versions, s3deleted, load, calls, ret, authz, goal>>

\* The answers of the authorizations of the revisions that failed: the
\* futures are polled in the order they finish, and the first error returns.
RevisionAuthzErrors(metadata, revision_ids) ==
    {authorize(metadata, "ObjectGroupRevision", "Write", revision_id) :
        revision_id \in revision_ids} \ {"ok"}

\* The dataset is authorized, the DatasetVersion is stored, the revisions
\* are authorized, and each revision is updated by its id.
release_dataset_version ==
    \E metadata \in Metadata, id \in ResourceIds("Dataset"),
       revision_ids \in SUBSET ResourceIds("ObjectGroupRevision"),
       object_group_ids \in SUBSET Revs :
        LET res == authorize(metadata, "Dataset", "Write", id)
            inserted_dataset_version == NewId(versions)
            errors == RevisionAuthzErrors(metadata, revision_ids)
        IN
        /\ Idle
        /\ res = "ok" => Room(versions, MaxVersions)
        /\ versions' =
              IF res = "ok"
              THEN [versions EXCEPT ![inserted_dataset_version] =
                       NewDatasetVersion(id[2], object_group_ids)]
              ELSE versions
        /\ revisions' =
              [r \in Revs |->
                  IF /\ res = "ok" /\ errors = {}
                     /\ Uuid("ObjectGroupRevision", r) \in revision_ids
                     /\ Stored(revisions[r])
                  THEN AddToSet(revisions[r], inserted_dataset_version)
                  ELSE revisions[r]]
        /\ \E answer \in (IF res # "ok" THEN {res}
                          ELSE IF errors # {} THEN errors ELSE {"ok"}) :
              rpc' = Answer("release_dataset_version", "Dataset", "Write", id,
                            metadata, answer)
        /\ UNCHANGED <<projects, tokens, datasets, groups, s3deleted, load, calls,
                       ret, authz, uploads, goal>>

NextFacade ==
    \/ StatelessRpc
    \/ UserIdRpc
    \/ create_project
    \/ add_user_to_project
    \/ create_api_token
    \/ create_dataset
    \/ create_object_group_with_version
    \/ add_version_to_object_group
    \/ finish_object_upload
    \/ start_multipart_upload
    \/ complete_multipart_upload
    \/ release_dataset_version

SpecFacade == InitAuth /\ [][NextFacade]_vars

(***************************************************************************)
(* The handlers by family, and the specifications.                         *)
(***************************************************************************)
Create ==
    \/ CreateDataset
    \/ CreateObjectGroup
    \/ CreateRevisionInc
    \/ \E k \in InFlight : CreateRevisionStore(k)

Release ==
    \/ ReleaseStore
    \/ \E k \in InFlight : ReleaseUpdate(k)

RevisionSteps ==
    \/ \E k \in InFlight, r \in Revs : RevisionRead(k, r)
    \/ \E k \in InFlight, r \in Revs : RevisionDelete(k, r)

GroupSteps ==
    \/ \E k \in InFlight, r \in Revs : RevisionFuture(k, r)
    \/ \E k \in InFlight, g \in Groups : GroupRead(k, g)
    \/ \E k \in InFlight, g \in Groups : GroupDelete(k, g)

VersionSteps ==
    \/ \E k \in InFlight, v \in Versions : VersionPull(k, v)
    \/ \E k \in InFlight, v \in Versions : VersionDelete(k, v)

DatasetSteps ==
    \/ DatasetMark
    \/ \E k \in InFlight : DatasetVersions(k)
    \/ \E k \in InFlight, v \in Versions : VersionFuture(k, v)
    \/ \E k \in InFlight : DatasetGroups(k)
    \/ \E k \in InFlight, g \in Groups : GroupFuture(k, g)
    \/ \E k \in InFlight : DatasetDelete(k)

\* Revisions and groups: create, finish and delete of object groups.
NextGroups ==
    \/ Create
    \/ FinishObjectGroupUpload
    \/ \E r \in Revs : DeleteObjectRevision(r)
    \/ \E g \in Groups : DeleteObjectGroup(g)
    \/ RevisionSteps
    \/ GroupSteps

SpecGroups == Init /\ [][NextGroups]_vars

\* Releases: create, release, and delete of revisions and versions.
NextRelease ==
    \/ Create
    \/ Release
    \/ \E r \in Revs : DeleteObjectRevision(r)
    \/ \E v \in Versions : DeleteDatasetVersion(v)
    \/ RevisionSteps
    \/ VersionSteps

SpecRelease == Init /\ [][NextRelease]_vars

\* Released groups: create, release and delete_object_group.
NextGroupRelease ==
    \/ Create
    \/ Release
    \/ \E g \in Groups : DeleteObjectGroup(g)
    \/ RevisionSteps
    \/ GroupSteps

SpecGroupRelease == Init /\ [][NextGroupRelease]_vars

(***************************************************************************)
(* Errors of delete_one.  delete::<T> logs the error, builds a status      *)
(* internal that it drops, and returns Ok(()): the handler goes on as      *)
(* after a delete, and the document stays.                                 *)
(***************************************************************************)
DeleteOneError(doc) == doc

RevisionDeleteError(k, r) ==
    /\ Job(k, "rev", r) = "delete"
    /\ revisions' = [revisions EXCEPT ![r] = DeleteOneError(@)]
    /\ IF k.op = "delete_object_revision"
       THEN Return(k, "ok", {})
       ELSE /\ calls' = Replace(k, SetJob(k, "rev", r, "ok"))
            /\ ret' = NoRet
    /\ UNCHANGED <<auth, datasets, groups, versions, s3deleted>>

GroupDeleteError(k, g) ==
    /\ Job(k, "grp", g) = "delete"
    /\ ChildRevisionsDone(k, g)
    /\ groups' = [groups EXCEPT ![g] = DeleteOneError(@)]
    /\ IF k.op = "delete_object_group"
       THEN Return(k, "ok", {})
       ELSE /\ calls' = Replace(k, SetJob(k, "grp", g, "ok"))
            /\ ret' = NoRet
    /\ UNCHANGED <<auth, datasets, revisions, versions, s3deleted>>

\* Revisions and groups, with a store whose delete_one can fail.
NextDeleteErrors ==
    \/ Create
    \/ \E r \in Revs : DeleteObjectRevision(r)
    \/ \E g \in Groups : DeleteObjectGroup(g)
    \/ RevisionSteps
    \/ GroupSteps
    \/ \E k \in InFlight, r \in Revs : RevisionDeleteError(k, r)
    \/ \E k \in InFlight, g \in Groups : GroupDeleteError(k, g)

SpecDeleteErrors == Init /\ [][NextDeleteErrors]_vars

(***************************************************************************)
(* An object store whose delete_object can fail.  The futures of a         *)
(* revision's objects are polled together and the loop returns at the      *)
(* first Err, which drops the futures that are left: of the objects whose  *)
(* delete did not fail, any may have been deleted by then.                 *)
(***************************************************************************)
\* The loop that goes on to delete::<ObjectGroupRevision> after an Err.
RevisionReadObjectErrorIgnored(k, r) ==
    /\ Job(k, "rev", r) = "read"
    /\ Stored(revisions[r])
    /\ ~HasVersions(revisions[r])
    /\ \E failed \in SUBSET ObjectsOf(r) \ {{}} :
       \E done \in SUBSET (ObjectsOf(r) \ failed) :
           /\ s3deleted' = s3deleted \cup done
           /\ calls' = Replace(k, [k EXCEPT !.jobs[<<"rev", r>>] = "delete",
                                            !.issued = @ \cup ObjectsOf(r)])
           /\ ret' = NoRet
    /\ UNCHANGED <<auth, datasets, groups, revisions, versions>>

\* The read, the check and the loop over delete_object, where the object
\* store answers Err for the objects of `failed`: value? returns the error.
RevisionReadObjectError(k, r) ==
    /\ Job(k, "rev", r) = "read"
    /\ Stored(revisions[r])
    /\ ~HasVersions(revisions[r])
    /\ \E failed \in SUBSET ObjectsOf(r) \ {{}} :
       \E done \in SUBSET (ObjectsOf(r) \ failed) :
           /\ s3deleted' = s3deleted \cup done
           /\ calls' = Remove(k)
           /\ ret' = [NoRet EXCEPT !.op = k.op, !.id = k.id,
                                   !.res = "internal",
                                   !.issued = k.issued \cup failed \cup done,
                                   !.was = k.was]
    /\ UNCHANGED <<auth, datasets, groups, revisions, versions>>

\* Revisions and groups, with an object store whose delete_object can fail.
NextObjectErrors ==
    \/ Create
    \/ \E r \in Revs : DeleteObjectRevision(r)
    \/ \E g \in Groups : DeleteObjectGroup(g)
    \/ RevisionSteps
    \/ GroupSteps
    \/ \E k \in InFlight, r \in Revs : RevisionReadObjectError(k, r)

SpecObjectErrors == Init /\ [][NextObjectErrors]_vars

(***************************************************************************)
(* A store whose insert_one can fail: store() returns internal and the     *)
(* handler returns it; the $inc of revision_counter has been applied.      *)
(***************************************************************************)
\* The numbers of g's counter that no call in flight and no inserted
\* revision holds.
LostNumbers(g) ==
    groups[g].revision_counter
      - Cardinality({r \in Revs : /\ HandedOut(revisions[r])
                                  /\ revisions[r].object_group_id = g})
      - BagCardinality([k \in {c \in InFlight :
                                  /\ c.op = "create_revision_for_group"
                                  /\ c.id = g} |-> calls[k]])

\* A handler that takes the increment back when the insert has failed.
CreateRevisionStoreRollback(k) ==
    /\ k.op = "create_revision_for_group" /\ k.pc = "store"
    /\ LostNumbers(k.id) < MaxFailures
    /\ groups' = [groups EXCEPT ![k.id].revision_counter = @ - 1]
    /\ ret' = [NoRet EXCEPT !.op = "create_revision_for_group", !.id = k.id,
                            !.res = "internal", !.was = k.object_group.status,
                            !.n = NewRevision(k.object_group, k.id, k.n).revision]
    /\ calls' = Remove(k)
    /\ UNCHANGED <<auth, datasets, revisions, versions, s3deleted>>

\* store(revision_entry) returns Err: nothing is inserted.  ret.id is the
\* group, ret.n the number the revision would have had and ret.was the status
\* of the group document the $inc returned.
CreateRevisionStoreError(k) ==
    /\ k.op = "create_revision_for_group" /\ k.pc = "store"
    /\ LostNumbers(k.id) < MaxFailures
    /\ ret' = [NoRet EXCEPT !.op = "create_revision_for_group", !.id = k.id,
                            !.res = "internal", !.was = k.object_group.status,
                            !.n = NewRevision(k.object_group, k.id, k.n).revision]
    /\ calls' = Remove(k)
    /\ UNCHANGED <<auth, datasets, groups, revisions, versions, s3deleted>>

\* Groups and their revisions, with a store whose insert_one can fail.
NextAppendErrors ==
    \/ Create
    \/ \E g \in Groups : DeleteObjectGroup(g)
    \/ RevisionSteps
    \/ GroupSteps
    \/ \E k \in InFlight : CreateRevisionStoreError(k)

SpecAppendErrors == Init /\ [][NextAppendErrors]_vars

(***************************************************************************)
(* read_current_revision(object_group_id): two reads of the store.         *)
(***************************************************************************)
\* read_revision's query {object_group_id, revision}: find_one_by_key.
ReadRevision(object_group_id, revision) ==
    {r \in Revs : /\ Stored(revisions[r])
                  /\ revisions[r].object_group_id = object_group_id
                  /\ revisions[r].revision = revision}

\* read_entry_by_id::<ObjectGroup>: not_found when no document has the id.
\* ret.id is the group the call was made for; rids keeps the revisions of the
\* group that were in the store when the call read the group.
ReadCurrentGroup ==
    /\ CanCall
    /\ \E g \in Groups :
        /\ HandedOut(groups[g])
        /\ IF Stored(groups[g])
           THEN /\ calls' = Add([NoCall EXCEPT !.op = "read_current_revision",
                                               !.pc = "revision", !.id = g,
                                               !.rids = RevisionsOfGroup(g),
                                               !.object_group = groups[g]])
                /\ ret' = NoRet
           ELSE /\ calls' = calls
                /\ ret' = [NoRet EXCEPT !.op = "read_current_revision",
                                        !.id = g, !.res = "not_found"]
    /\ UNCHANGED <<auth, datasets, groups, revisions, versions, s3deleted>>

\* read_revision(object_group_id, object_group.revision_counter - 1).  ret.n
\* is the number of the revision returned and ret.saw its id.
ReadCurrentRevision(k) ==
    /\ k.op = "read_current_revision" /\ k.pc = "revision"
    /\ LET found == ReadRevision(k.id, k.object_group.revision_counter - 1)
       IN IF found = {}
          THEN ret' = [NoRet EXCEPT !.op = k.op, !.id = k.id,
                                    !.res = "not_found"]
          ELSE \E r \in found :
                 ret' = [NoRet EXCEPT !.op = k.op, !.id = k.id, !.res = "ok",
                                      !.n = revisions[r].revision,
                                      !.saw = {r}]
    /\ calls' = Remove(k)
    /\ UNCHANGED <<auth, datasets, groups, revisions, versions, s3deleted>>

\* Appends, deletes of revisions and reads of the current revision.
NextReads ==
    \/ Create
    \/ \E r \in Revs : DeleteObjectRevision(r)
    \/ RevisionSteps
    \/ ReadCurrentGroup
    \/ \E k \in InFlight : ReadCurrentRevision(k)

SpecReads == Init /\ [][NextReads]_vars

(***************************************************************************)
(* Calls made one after the other: a client starts a call when no call is  *)
(* in flight.  Two datasets and two versions can be created.               *)
(***************************************************************************)
Quiet == calls = EmptyBag

\* The requests made so far: every dataset is of project 1, every revision
\* has MaxObjects objects and no release lists object group ids.
PlainRequests ==
    /\ \A d \in Datasets : datasets[d].project_id <= 1
    /\ \A v \in Versions : versions[v].object_group_ids = {}
    /\ \A k \in InFlight :
          k.op = "create_revision_for_group" => k.n = MaxObjects

NextSequential ==
    \/ Quiet /\ CreateDatasetOf(MaxDatasets + MoreDatasets) /\ PlainRequests'
    \/ Quiet /\ CreateObjectGroup
    \/ Quiet /\ CreateRevisionInc /\ PlainRequests'
    \/ \E k \in InFlight : CreateRevisionStore(k)
    \/ Quiet /\ ReleaseStoreOf(MaxVersions + MoreVersions) /\ PlainRequests'
    \/ \E k \in InFlight : ReleaseUpdate(k)
    \/ Quiet /\ DatasetMark
    \/ RevisionSteps
    \/ GroupSteps
    \/ VersionSteps
    \/ DatasetSteps

SpecSequential == Init /\ [][NextSequential]_vars

\* Two versions of one dataset: creates and releases one after the other,
\* then deletes of revisions and of versions, which can overlap.
NextVersions ==
    \/ Quiet /\ CreateDataset /\ PlainRequests'
    \/ Quiet /\ CreateObjectGroup
    \/ Quiet /\ CreateRevisionInc /\ PlainRequests'
    \/ \E k \in InFlight : CreateRevisionStore(k)
    \/ Quiet /\ ReleaseStoreOf(MaxVersions + MoreVersions) /\ PlainRequests'
    \/ \E k \in InFlight : ReleaseUpdate(k)
    \/ \E r \in Revs : DeleteObjectRevision(r)
    \/ \E v \in Versions : DeleteDatasetVersion(v)
    \/ RevisionSteps
    \/ VersionSteps

SpecVersions == Init /\ [][NextVersions]_vars

(***************************************************************************)
(* The fan-outs.  Each builds a FuturesUnordered: push puts a future in    *)
(* the queue, which is not polled before the queue is; next().await polls  *)
(* every future of the queue, so each starts its call of the store, of the *)
(* object store or of the authorization, and returns when one is complete. *)
(*   "authorize": release_dataset_version, the authorizations of the       *)
(*       revisions; the queue's len() is compared with 100 after the loop. *)
(*   "update": release_dataset_version, the updates of dataset_versions;   *)
(*       len() is compared with 100 after each push.                       *)
(*   "chunk": create_datatset_version, one update per chunk of revisions.  *)
(*   "delete_object": delete_object_revision, one delete per object.       *)
(*   "delete_child": delete_object_group and delete_dataset, one delete    *)
(*       handler per child.                                                *)
(***************************************************************************)
FanOutLimit == 100

FanOuts == {"authorize", "update", "chunk", "delete_object", "delete_child"}

len(queue) == queue.pushed + queue.flying

\* The handler reaches the loop with n requests.
FanOutStart ==
    /\ fanout.pc \in {"none", "done"}
    /\ \E of \in FanOuts, n \in 0..MaxFanOut :
        fanout' = [of |-> of, pc |-> "push", todo |-> n, pushed |-> 0,
                   flying |-> 0]
    /\ UNCHANGED <<server, objects, multiparts, datasets, groups, revisions,
                   versions, s3deleted, calls, ret>>

\* One turn of the for loop, or its end.
FanOutPush ==
    /\ fanout.pc = "push"
    /\ IF fanout.todo > 0
       THEN LET queue == [fanout EXCEPT !.todo = @ - 1, !.pushed = @ + 1] IN
            fanout' = IF fanout.of = "update" /\ len(queue) = FanOutLimit
                      THEN [queue EXCEPT !.pc = "next"]
                      ELSE queue
       ELSE fanout' = IF fanout.of = "authorize" /\ len(fanout) = FanOutLimit
                      THEN [fanout EXCEPT !.pc = "next"]
                      ELSE [fanout EXCEPT !.pc = "while"]
    /\ UNCHANGED <<server, objects, multiparts, datasets, groups, revisions,
                   versions, s3deleted, calls, ret>>

\* next().await polls the queue: every future pushed starts its operation.
FanOutPoll ==
    /\ fanout.pc \in {"next", "while"}
    /\ fanout.pushed > 0
    /\ fanout' = [fanout EXCEPT !.pushed = 0, !.flying = @ + fanout.pushed]
    /\ UNCHANGED <<server, objects, multiparts, datasets, groups, revisions,
                   versions, s3deleted, calls, ret>>

\* An operation is complete and next().await returns it: to the loop that
\* pushes, or for another turn of the while loop that drains the queue.  An
\* error ends the handler and drops the queue.
FanOutNext ==
    /\ fanout.pc \in {"next", "while"}
    /\ fanout.pushed = 0
    /\ \E failed \in BOOLEAN :
        fanout' =
            IF fanout.flying = 0 \/ failed
            THEN [fanout EXCEPT !.pc = "done", !.todo = 0, !.flying = 0]
            ELSE IF fanout.pc = "next"
            THEN [fanout EXCEPT !.flying = @ - 1,
                     !.pc = IF fanout.of = "update" THEN "push" ELSE "while"]
            ELSE [fanout EXCEPT !.flying = @ - 1]
    /\ UNCHANGED <<server, objects, multiparts, datasets, groups, revisions,
                   versions, s3deleted, calls, ret>>

NextFanOut ==
    \/ FanOutStart
    \/ FanOutPush
    \/ FanOutPoll
    \/ FanOutNext

SpecFanOut == Init /\ [][NextFanOut]_vars

Load ==
    \/ InitMultipartFind
    \/ \E k \in InFlight : InitMultipartInit(k)
    \/ \E k \in InFlight : InitMultipartUpdate(k)

\* Uploads: create, multipart upload, finish and delete of revisions.
NextLoad ==
    \/ Create
    \/ Load
    \/ FinishObjectGroupUpload
    \/ \E r \in Revs : DeleteObjectRevision(r)
    \/ RevisionSteps

SpecLoad == Init /\ [][NextLoad]_vars

\* Datasets: create, release and delete_dataset with its whole cascade.
NextDataset ==
    \/ Create
    \/ Release
    \/ RevisionSteps
    \/ GroupSteps
    \/ VersionSteps
    \/ DatasetSteps

SpecDataset == Init /\ [][NextDataset]_vars

(***************************************************************************)
(* A delete that fails part-way and is called again.  A call of the        *)
(* metadata store or of the object store fails: the handler returns the    *)
(* error with `?`, the futures it was polling are dropped, and what the    *)
(* calls before had written stays.  goal holds what the same delete leaves *)
(* when no call fails, worked out from handler/delete.rs on the store the  *)
(* first call found.  The delete adapter does not report its errors, so a  *)
(* failing delete_one is not a failure of the handler and is left out.     *)
(***************************************************************************)
\* The cascading deletes.
DeleteOps ==
    {"delete_object_revision", "delete_object_group",
     "delete_dataset_version", "delete_dataset"}

Store ==
    [datasets |-> datasets, groups |-> groups, revisions |-> revisions,
     versions |-> versions, s3deleted |-> s3deleted]

\* delete_object_revision: the objects and the document.
AfterRevisions(S, rs) ==
    [S EXCEPT
        !.revisions = [r \in Revs |-> IF r \in rs THEN DeleteOne(@[r]) ELSE @[r]],
        !.s3deleted = @ \cup {o \in Revs \X (1..MaxObjects) :
                                 /\ o[1] \in rs
                                 /\ o[2] <= S.revisions[o[1]].objects_count}]

ChildrenOf(S, gs) ==
    {r \in Revs : Stored(S.revisions[r]) /\ S.revisions[r].object_group_id \in gs}

\* delete_object_group: its revisions, then the document.
AfterGroups(S, gs) ==
    [AfterRevisions(S, ChildrenOf(S, gs)) EXCEPT
        !.groups = [g \in Groups |-> IF g \in gs THEN DeleteOne(@[g]) ELSE @[g]]]

\* delete_dataset_version: the $pull on every revision, then the document.
AfterVersions(S, vs) ==
    [S EXCEPT
        !.revisions = [r \in Revs |->
            IF Stored(@[r]) THEN [@[r] EXCEPT !.dataset_versions = @ \ vs]
            ELSE @[r]],
        !.versions = [v \in Versions |-> IF v \in vs THEN DeleteOne(@[v]) ELSE @[v]]]

VersionsIn(S, d) ==
    {v \in Versions : Stored(S.versions[v]) /\ S.versions[v].dataset_id = d}

GroupsIn(S, d) ==
    {g \in Groups : Stored(S.groups[g]) /\ S.groups[g].dataset_id = d}

\* delete_dataset: its versions, then its groups, then the document.
AfterDataset(S, d) ==
    LET S1 == AfterVersions(S, VersionsIn(S, d))
    IN  [AfterGroups(S1, GroupsIn(S1, d)) EXCEPT !.datasets[d] = DeleteOne(@)]

\* No revision the delete comes to has a dataset version left.
Deletable(S, rs) == \A r \in rs : S.revisions[r].dataset_versions = {}

\* The delete returns Ok when no call fails.
WouldSucceed(op, id) ==
    CASE op = "delete_object_revision" ->
            Stored(revisions[id]) /\ Deletable(Store, {id})
      [] op = "delete_object_group" ->
            Deletable(Store, ChildrenOf(Store, {id}))
      [] op = "delete_dataset_version" -> TRUE
      [] op = "delete_dataset" ->
            LET S1 == AfterVersions(Store, VersionsIn(Store, id))
            IN  Deletable(S1, ChildrenOf(S1, GroupsIn(S1, id)))

\* The store it leaves then.
Final(op, id) ==
    CASE op = "delete_object_revision" -> AfterRevisions(Store, {id})
      [] op = "delete_object_group" -> AfterGroups(Store, {id})
      [] op = "delete_dataset_version" -> AfterVersions(Store, {id})
      [] op = "delete_dataset" -> AfterDataset(Store, id)

\* The ids a client has for a delete.
DeleteIds(op) ==
    CASE op = "delete_object_revision" -> {r \in Revs : HandedOut(revisions[r])}
      [] op = "delete_object_group" -> {g \in Groups : HandedOut(groups[g])}
      [] op = "delete_dataset_version" -> {v \in Versions : HandedOut(versions[v])}
      [] op = "delete_dataset" -> {d \in Datasets : HandedOut(datasets[d])}

\* A client is about to call a delete: what the delete will leave.
Plan ==
    \E op \in DeleteOps : \E id \in DeleteIds(op) :
        /\ goal = NoGoal
        /\ calls = EmptyBag
        /\ goal' = [op |-> op, id |-> id, can |-> WouldSucceed(op, id),
                    final |-> Final(op, id), failures |-> 0, left |-> Store]
        /\ UNCHANGED <<projects, tokens, authz, uploads, rpc, datasets, groups,
                       revisions, versions, s3deleted, load, calls, ret>>

\* The next call of the store a running delete makes fails.
Fail ==
    \E k \in InFlight :
        /\ k.op \in DeleteOps
        /\ goal.failures < MaxFailures
        /\ Return(k, "internal", {})
        /\ goal' = [goal EXCEPT !.failures = @ + 1, !.left = Store]
        /\ UNCHANGED <<projects, tokens, authz, uploads, rpc, datasets, groups,
                       revisions, versions, s3deleted, load>>

\* The client calls the delete, for the first time or after a failure.
Attempt(op, id) ==
    /\ calls = EmptyBag
    /\ goal.op = op /\ goal.id = id
    /\ ret.op \notin DeleteOps \/ ret.res = "internal"

\* The store is built by calls that run one after the other.
Building == goal = NoGoal /\ calls = EmptyBag

NextRetry ==
    \/ Building /\ CreateDataset
    \/ Building /\ CreateObjectGroup
    \/ Building /\ CreateRevisionInc
    \/ \E k \in InFlight : CreateRevisionStore(k)
    \/ Building /\ ReleaseStore
    \/ \E k \in InFlight : ReleaseUpdate(k)
    \/ Plan
    \/ \E r \in Revs : Attempt("delete_object_revision", r) /\ DeleteObjectRevision(r)
    \/ \E g \in Groups : Attempt("delete_object_group", g) /\ DeleteObjectGroup(g)
    \/ \E v \in Versions : Attempt("delete_dataset_version", v) /\ DeleteDatasetVersion(v)
    \/ \E d \in Datasets : Attempt("delete_dataset", d) /\ DeleteDataset(d)
    \/ RevisionSteps
    \/ GroupSteps
    \/ VersionSteps
    \/ \E k \in InFlight : DatasetVersions(k)
    \/ \E k \in InFlight, v \in Versions : VersionFuture(k, v)
    \/ \E k \in InFlight : DatasetGroups(k)
    \/ \E k \in InFlight, g \in Groups : GroupFuture(k, g)
    \/ \E k \in InFlight : DatasetDelete(k)
    \/ Fail

SpecRetry == Init /\ [][NextRetry]_vars

(***************************************************************************)
(* Revision numbers.                                                       *)
(***************************************************************************)
\* The revisions ever inserted for group g, removed ones included.
InsertedFor(g) ==
    {r \in Revs : HandedOut(revisions[r]) /\ revisions[r].object_group_id = g}

StoredFor(g) == {r \in InsertedFor(g) : Stored(revisions[r])}

\* C1: under any interleaving of create_revision_for_group calls on a group,
\* every inserted revision has a number different from that of every other
\* revision ever inserted for the group, and a call that started after another
\* call had returned is given a number strictly larger than the returned one.
C1_DistinctIncreasing ==
    /\ \A g \in Groups : \A r1, r2 \in InsertedFor(g) :
          r1 # r2 => revisions[r1].revision # revisions[r2].revision
    /\ (ret.op = "create_revision_for_group" /\ ret.res = "ok")
          => ret.n > ret.floor

\* Two calls overlapped: the call that returned last was given number 1 and
\* had started before any call on the group returned.
C1_Witness ==
    /\ ret.op = "create_revision_for_group" /\ ret.res = "ok"
    /\ ret.n = 1 /\ ret.floor = -1
    /\ Cardinality(InsertedFor(revisions[ret.id].object_group_id)) = 2

\* C2: in every reachable state, every stored revision R of a stored group G
\* has 0 <= R.revision < G.revision_counter, and G has at most
\* G.revision_counter stored revisions.
C2_RevisionBelowCounter ==
    \A g \in Groups : Stored(groups[g]) =>
        /\ \A r \in StoredFor(g) :
              /\ 0 <= revisions[r].revision
              /\ revisions[r].revision < groups[g].revision_counter
        /\ Cardinality(StoredFor(g)) <= groups[g].revision_counter

\* A group whose counter is 2 with its second revision stored.
C2_Witness ==
    \E g \in Groups : \E r \in StoredFor(g) :
        /\ Stored(groups[g])
        /\ groups[g].revision_counter = 2
        /\ revisions[r].revision = 1

(***************************************************************************)
(* Released revisions.                                                     *)
(***************************************************************************)
\* The step is one of call k.
StepOf(k) == CopiesIn(k, calls') < CopiesIn(k, calls)

\* C3: delete_object_revision(R.id) on a revision R whose dataset_versions is
\* not empty when the handler reads it returns invalid-argument; the document
\* R stays in the store and the call asks the object store to delete nothing.
C3_ReleasedRevisionStays ==
    [][\A k \in InFlight : \A r \in Revs :
          ( /\ k.op = "delete_object_revision"
            /\ Job(k, "rev", r) = "read"
            /\ StepOf(k)
            /\ Stored(revisions[r])
            /\ revisions[r].dataset_versions # {} )
          => /\ ret'.op = "delete_object_revision"
             /\ ret'.id = r
             /\ ret'.res = "invalid_argument"
             /\ ret'.issued = {}
             /\ Stored(revisions'[r])
             /\ s3deleted' = s3deleted]_vars

\* delete_object_revision returned invalid-argument for a revision that a
\* dataset version references, and the revision is in the store.
C3_Witness ==
    /\ ret.op = "delete_object_revision"
    /\ ret.res = "invalid_argument"
    /\ ret.saw # {}
    /\ Stored(revisions[ret.id])
    /\ revisions[ret.id].dataset_versions # {}
    /\ ObjectsOf(ret.id) # {}
    /\ ObjectsOf(ret.id) \cap s3deleted = {}

\* C4: in every interleaving of delete_object_revision(R) with a
\* create_datatset_version whose revision_ids contain R, the document R is
\* never removed at a moment when its dataset_versions is not empty.
C4_NeverRemovedWhileReleased ==
    [][\A r \in Revs :
          (Stored(revisions[r]) /\ ~Stored(revisions'[r]))
             => revisions[r].dataset_versions = {}]_vars

\* C5: when create_datatset_version has returned successfully, every revision
\* whose id is in the stored version's object_group_ids has the version's id
\* in its dataset_versions.
C5_ReleaseTagsEveryRevision ==
    (ret.op = "create_datatset_version" /\ ret.res = "ok")
       => \A r \in versions[ret.id].object_group_ids :
              ret.id \in revisions[r].dataset_versions

\* C7: when delete_dataset_version(v) has returned successfully, no revision's
\* dataset_versions contains v and no DatasetVersion v is in the store (a
\* revision only v referenced then passes the check of delete_object_revision).
C7_VersionGoneEverywhere ==
    (ret.op = "delete_dataset_version" /\ ret.res = "ok")
       => /\ ~Stored(versions[ret.id])
          /\ \A r \in Revs :
                Stored(revisions[r]) => ret.id \notin revisions[r].dataset_versions

(***************************************************************************)
(* Deleting a dataset.                                                     *)
(***************************************************************************)
\* C6: when delete_dataset(d) has returned successfully, the store holds no
\* Dataset d (a read of d by id returns not-found) and no DatasetVersion,
\* ObjectGroup or ObjectGroupRevision of d, and the object store was asked to
\* delete every object embedded in a revision of d.
C6_DatasetGoneWithAllItHolds ==
    (ret.op = "delete_dataset" /\ ret.res = "ok")
       => /\ ~DatasetStored(ret.id)
          /\ VersionsOfDataset(ret.id) = {}
          /\ GroupsOfDataset(ret.id) = {}
          /\ \A r \in Revs :
                (HandedOut(revisions[r]) /\ revisions[r].datasete_id = ret.id)
                   => /\ ~Stored(revisions[r])
                      /\ ObjectsOf(r) \subseteq s3deleted

(***************************************************************************)
(* The status of an object group.                                          *)
(***************************************************************************)
\* The place of a status on Initializing -> Available -> Deleting -> removed.
StatusRank(status) ==
    CASE status = "none" -> 0
      [] status = "Initializing" -> 1
      [] status = "Available" -> 2
      [] status = "Deleting" -> 3
      [] status = "removed" -> 4

\* C8: the status of an ObjectGroup only moves along Initializing ->
\* Available -> Deleting -> removed: no step takes it back, and none sets a
\* group that is Deleting to Available or Initializing.
C8_GroupStatusOneWay ==
    [][\A g \in Groups :
          StatusRank(groups'[g].status) >= StatusRank(groups[g].status)]_vars

(***************************************************************************)
(* Authorization.                                                          *)
(***************************************************************************)
\* The project a dataset belongs to, if the dataset is in the store.
OwnerOfDataset(d) ==
    IF d \in Datasets /\ DatasetStored(d) THEN {datasets[d].project_id} ELSE {}

\* The project that owns a resource: a dataset's project_id, and for what a
\* dataset holds the project of its dataset; an object belongs to the
\* revision that embeds it.
Owner(resource, id) ==
    CASE resource = "Project" -> {id[2]}
      [] resource = "Dataset" -> OwnerOfDataset(id[2])
      [] resource = "DatasetVersion" ->
            IF Stored(versions[id[2]])
            THEN OwnerOfDataset(versions[id[2]].dataset_id) ELSE {}
      [] resource = "ObjectGroup" ->
            IF Stored(groups[id[2]])
            THEN OwnerOfDataset(groups[id[2]].dataset_id) ELSE {}
      [] resource = "ObjectGroupRevision" ->
            IF Stored(revisions[id[2]])
            THEN OwnerOfDataset(revisions[id[2]].datasete_id) ELSE {}
      [] resource = "Object" ->
            IF Stored(revisions[id[2][1]]) /\ id[2] \in ObjectsOf(id[2][1])
            THEN OwnerOfDataset(revisions[id[2][1]].datasete_id) ELSE {}

\* The project lists the user with the right.
Lists(p, u, right) ==
    /\ Stored(projects[p])
    /\ \E user \in projects[p].users :
          user.user_id = u /\ contains(user.rights, right)

\* C9: with an AccessToken of a user, authorize(resource, right, id) succeeds
\* exactly when the project that owns the resource lists the user with the
\* right, whatever the kind of the resource.
C9_UserTokenByOwningProject ==
    (authz.AccessToken.present /\ authz.AccessToken.value \in Users)
       => ( authz.res = "ok"
            <=> \E p \in Owner(authz.resource, authz.id) :
                    Lists(p, authz.AccessToken.value, authz.right) )

\* The call carries an API_TOKEN the store holds, and no AccessToken.
ApiTokenMode ==
    /\ ~authz.AccessToken.present
    /\ authz.API_TOKEN.present
    /\ Stored(tokens[authz.API_TOKEN.value])

\* C10: with an API token, authorize succeeds only if the token's project_id
\* is the project that owns the resource and the token's rights contain the
\* right asked for; a call for a resource of a project that fails either
\* condition is answered permission-denied.
C10_ApiTokenOwnProjectOnly ==
    ApiTokenMode =>
        LET db_token == tokens[authz.API_TOKEN.value]
            allowed == \E p \in Owner(authz.resource, authz.id) :
                          /\ db_token.project_id = p
                          /\ authz.right \in db_token.rights
        IN  /\ authz.res = "ok" => allowed
            /\ (Owner(authz.resource, authz.id) # {} /\ ~allowed)
                  => authz.res = "permission_denied"

\* The project authorize resolved is the project that owns the resource.
ResolvedOwner ==
    /\ authz.project_id.ok
    /\ authz.project_id.id \in
           {Uuid("project", p) : p \in Owner(authz.resource, authz.id)}

\* C11: for an object group the store holds, authorize(ObjectGroup, g.id)
\* resolves the owning project as the project_id of the dataset whose id is
\* g.dataset_id.
C11_GroupResolvesThroughDataset ==
    (authz.resource = "ObjectGroup" /\ Owner(authz.resource, authz.id) # {})
        => ResolvedOwner

\* C12: for an object embedded in a revision the store holds,
\* authorize(Object, o.id) finds the revision whose objects contain o.id and
\* resolves the owning project as the project_id of the dataset of that
\* revision.
C12_ObjectResolvesThroughRevision ==
    (authz.resource = "Object" /\ Owner(authz.resource, authz.id) # {})
        => ResolvedOwner

\* The methods of the gRPC server that write to the metadata store or the
\* object store on behalf of a project.
MutatingRpcs ==
    {"add_user_to_project", "create_api_token", "create_dataset",
     "create_object_group_with_version", "add_version_to_object_group",
     "finish_object_upload", "start_multipart_upload",
     "complete_multipart_upload", "release_dataset_version"}

\* The methods that only read.
ReadRpcs ==
    StatelessRpcs \ {"create_upload_link", "get_multipart_upload_link"}

\* The document a call of the gRPC server is about.
RpcTarget ==
    IF rpc.name \in StatelessRpcs THEN RpcArg(rpc.name) ELSE rpc.resource

\* The caller's credential gives the right on the project that owns the
\* document the call is about.
CallerHas(right) ==
    \E p \in Owner(RpcTarget, rpc.id) :
        \/ /\ rpc.AccessToken.present
           /\ Lists(p, rpc.AccessToken.value, right)
        \/ /\ ~rpc.AccessToken.present
           /\ rpc.API_TOKEN.present
           /\ Stored(tokens[rpc.API_TOKEN.value])
           /\ tokens[rpc.API_TOKEN.value].project_id = p
           /\ right \in tokens[rpc.API_TOKEN.value].rights

\* C13: in release_dataset_version the dataset and every listed revision are
\* authorized before any write: when the call fails on an authorization, no
\* DatasetVersion has been inserted and no revision's dataset_versions has
\* changed.
C13_ReleaseAuthorizesBeforeWriting ==
    [][ (rpc'.name = "release_dataset_version" /\ rpc'.res # "ok")
           => UNCHANGED <<versions, revisions>> ]_vars

\* C14: every method that writes to the metadata store or the object store
\* asks for the Write right, so a caller whose credential carries Read only
\* is answered permission-denied and nothing is changed.
C14_MutatingAsksWrite ==
    [][ rpc'.name \in MutatingRpcs =>
           /\ rpc'.right = "Write"
           /\ (CallerHas("Read") /\ ~CallerHas("Write"))' =>
                 /\ rpc'.res = "permission_denied"
                 /\ UNCHANGED <<projects, tokens, datasets, groups, revisions,
                                versions, s3deleted, uploads>> ]_vars

\* C15: every read-only method succeeds for a caller who has the Read right
\* on the project that owns what is read.
C15_ReadWithReadRight ==
    (rpc.name \in ReadRpcs /\ CallerHas("Read")) => rpc.res = "ok"

C17_UnresolvedIsInternal ==
    ( /\ authz.resource \in Resources
      /\ \/ authz.AccessToken.present /\ authz.AccessToken.value \in Users
         \/ ApiTokenMode
      /\ Owner(authz.resource, authz.id) = {} )
        => authz.res = "internal"

\* C18: deleting an id that is not in the store returns not-found:
\* delete_object_group on a group the store does not hold, and a second
\* delete_dataset on an id after a first one succeeded, are answered
\* not-found.
C18_DeleteMissingIsNotFound ==
    (ret.op \in DeleteOps /\ ret.was = "removed") => ret.res = "not_found"

\* C20: delete_object_revision checks dataset_versions before it marks the
\* revision: when the delete is rejected with invalid-argument, the revision
\* has the status it had before the call.
C20_RejectedKeepsStatus ==
    (ret.op = "delete_object_revision" /\ ret.res = "invalid_argument")
        => revisions[ret.id].status = ret.was

\* What a delete has to leave and whether it has to succeed.
Planned == goal.op \in DeleteOps /\ ret.op = goal.op /\ ret.id = goal.id

InitReturned == ret.op = "init_multipart_upload" /\ ret.res = "ok"

\* C21: a successful init_multipart_upload returns the object with an
\* upload_id that is not empty and is the upload id the object store handed
\* out in this call.
C21_InitReturnsUploadId ==
    InitReturned => /\ ret.object.upload_id # <<>>
                    /\ ret.object.upload_id = ret.upload_id

\* C22: after a successful init_multipart_upload of an object the store
\* still holds, find_object finds the same object with upload_id the new
\* upload id and nothing else changed; no other element and no revision
\* changes in the step that writes the upload id.
C22_InitChangesOnlyUploadId ==
    [][ \A id \in ObjectIds :
        (/\ ret'.op = "init_multipart_upload" /\ ret'.res = "ok"
         /\ ret'.object.id = id
         /\ find_object(id).ok)
        => /\ find_object(id)'.ok
           /\ find_object(id)'.object =
                  [find_object(id).object EXCEPT !.upload_id = ret'.upload_id]
           /\ \A o \in ObjectIds \ {id} : objects'[o] = objects[o]
           /\ revisions' = revisions ]_vars

\* The upload id the store holds at the place of an element: the field of
\* the document, or the string the element is.
StoredUploadId(element) ==
    IF element.bson = "string" THEN element.string ELSE element.upload_id

C24_RevisionStatus ==
    [][ /\ \A r \in Revs :
            /\ (~HandedOut(revisions[r]) /\ HandedOut(revisions'[r]))
                   => revisions'[r].status = "Initializing"
            /\ revisions[r].status = "Initializing"
                   => \/ revisions'[r].status = "Initializing"
                      \/ /\ revisions'[r].status = "Deleting"
                         /\ \E k \in BagToSet(calls') :
                                Job(k, "rev", r) = "read"
            /\ revisions[r].status = "Deleting"
                   => revisions'[r].status \in {"Deleting", "removed"}
            /\ revisions'[r].status
                   \in {"none", "Initializing", "Deleting", "removed"}
        /\ ret'.op = "finish_object_group_upload" => revisions' = revisions
      ]_vars

\* finish_object_group_upload has made a group Available that has a
\* revision, still Initializing, next to one a delete has marked.
C24_Witness ==
    /\ ret.op = "finish_object_group_upload" /\ ret.res = "ok"
    /\ groups[ret.id].status = "Available"
    /\ \E r1, r2 \in Revs :
        /\ revisions[r1].object_group_id = ret.id
        /\ revisions[r1].status = "Initializing"
        /\ revisions[r2].object_group_id = ret.id
        /\ revisions[r2].status = "Deleting"

(***************************************************************************)
(* The revision numbers of a group.                                        *)
(***************************************************************************)
\* A create_revision_for_group on g has incremented the counter and not yet
\* inserted its revision.
Appending(g) ==
    \E k \in InFlight : k.op = "create_revision_for_group" /\ k.id = g

\* C25: for a stored group of which no revision was deleted, whenever no
\* create_revision_for_group on it is in progress, the numbers of its
\* revisions are exactly 0 .. revision_counter - 1.
C25_NumbersFillCounter ==
    \A g \in Groups :
        (/\ Stored(groups[g])
         /\ StoredFor(g) = InsertedFor(g)
         /\ ~Appending(g))
            => {revisions[r].revision : r \in StoredFor(g)}
                   = 0..(groups[g].revision_counter - 1)

\* The second append on a group has returned number 1, after a first that
\* got number 0, and nothing of the group was deleted.
C25_Witness ==
    /\ ret.op = "create_revision_for_group" /\ ret.res = "ok" /\ ret.n = 1
    /\ \E g \in Groups :
        /\ Stored(groups[g]) /\ ~Appending(g)
        /\ groups[g].revision_counter = 2
        /\ StoredFor(g) = InsertedFor(g)
        /\ {revisions[r].revision : r \in StoredFor(g)} = {0, 1}

(***************************************************************************)
(* The head of a group.                                                    *)
(***************************************************************************)
\* The revisions of g that have its largest revision number.
Newest(g) ==
    {r \in StoredFor(g) :
        \A x \in StoredFor(g) : revisions[x].revision <= revisions[r].revision}

\* C26: when create_revision_for_group has returned a revision of a stored
\* group, the group's head_id is the id of the group's revision with the
\* largest number.
C26_HeadIsNewest ==
    (/\ ret.op = "create_revision_for_group" /\ ret.res = "ok"
     /\ Stored(revisions[ret.id])
     /\ Stored(groups[revisions[ret.id].object_group_id]))
        => groups[revisions[ret.id].object_group_id].head_id
               \in Newest(revisions[ret.id].object_group_id)

(***************************************************************************)
(* The fan-outs.                                                           *)
(***************************************************************************)
\* C27: at no time are more than 100 operations of a fan-out in flight.
C27_AtMostLimitInFlight == fanout.flying <= FanOutLimit

(***************************************************************************)
(* Errors of the store's delete.                                           *)
(***************************************************************************)
\* C28: a delete_object_revision or delete_object_group that returns success
\* has removed its target: the store holds no document of the id.
C28_SuccessMeansRemoved ==
    /\ (ret.op = "delete_object_revision" /\ ret.res = "ok")
           => ~Stored(revisions[ret.id])
    /\ (ret.op = "delete_object_group" /\ ret.res = "ok")
           => ~Stored(groups[ret.id])

(***************************************************************************)
(* The users of a project.                                                 *)
(***************************************************************************)
\* C30: each user_id appears at most once in the users of a project.
C30_UsersAreASet ==
    \A p \in Projects : \A u1, u2 \in projects[p].users :
        u1.user_id = u2.user_id => u1 = u2

(***************************************************************************)
(* What delete_object_revision leaves alone.                               *)
(***************************************************************************)
\* The step is one of a delete_object_revision(r) a client called: its
\* first, which adds the call, or a later one.
DeleteRevisionStep(r) ==
    \/ \E k \in BagToSet(calls') :
          /\ k.op = "delete_object_revision" /\ k.id = r
          /\ CopiesIn(k, calls') > CopiesIn(k, calls)
    \/ \E k \in InFlight :
          /\ k.op = "delete_object_revision" /\ k.id = r
          /\ StepOf(k)

\* C29: no step of delete_object_revision(r) changes a revision other than
\* r or a group, so every other revision reads as it was stored and
\* revision_counter is as it was; when the call returns success r is gone.
C29_DeleteRevisionFrame ==
    [][ \A r \in Revs : DeleteRevisionStep(r) =>
            /\ \A x \in Revs \ {r} : revisions'[x] = revisions[x]
            /\ groups' = groups
            /\ (ret'.op = "delete_object_revision" /\ ret'.res = "ok")
                   => ~Stored(revisions'[r]) ]_vars

\* delete_object_revision has removed the first of two revisions of a group;
\* the second is stored as it was inserted and the counter is 2.
C29_Witness ==
    /\ ret.op = "delete_object_revision" /\ ret.res = "ok"
    /\ revisions[ret.id].status = "removed"
    /\ revisions[ret.id].revision = 0
    /\ \E x \in Revs \ {ret.id} :
        /\ revisions[x].object_group_id = revisions[ret.id].object_group_id
        /\ revisions[x] = NewRevision(
               [groups[revisions[x].object_group_id]
                    EXCEPT !.revision_counter = 1],
               revisions[x].object_group_id, revisions[x].objects_count)
        /\ groups[revisions[x].object_group_id].revision_counter = 2

(***************************************************************************)
(* Groups and their dataset.                                               *)
(***************************************************************************)
\* C31: every stored ObjectGroup's dataset_id is the id of a stored Dataset.
C31_GroupHasDataset ==
    \A g \in Groups :
        Stored(groups[g]) => DatasetStored(groups[g].dataset_id)

(***************************************************************************)
(* Deleting a group with released revisions.                               *)
(***************************************************************************)
\* C32: a delete_object_group(g) removes the document g only when every
\* revision it read as a child of g is gone from the store; a child that has
\* dataset versions when its future reads it does not pass to its delete and
\* stays in the store, and the call that returns invalid-argument has left
\* the group document as it was, with such a child in the store.
C32_GroupAfterChildren ==
    [][ \A k \in InFlight :
        (k.op = "delete_object_group" /\ StepOf(k)) =>
          /\ (Stored(groups[k.id]) /\ ~Stored(groups'[k.id]))
                => \A r \in Revs :
                       Job(k, "rev", r) # "none" => ~Stored(revisions[r])
          /\ \A r \in Revs :
                (/\ Job(k, "rev", r) = "read"
                 /\ Stored(revisions[r])
                 /\ revisions[r].dataset_versions # {})
                => /\ Stored(revisions'[r])
                   /\ \A k2 \in BagToSet(calls') \ InFlight :
                          (k2.op = k.op /\ k2.id = k.id)
                              => Job(k2, "rev", r) = "read"
          /\ (ret'.op = "delete_object_group"
                 /\ ret'.res = "invalid_argument")
                => /\ groups' = groups
                   /\ \E r \in Revs :
                        /\ Job(k, "rev", r) = "read"
                        /\ Stored(revisions'[r])
                        /\ revisions'[r].dataset_versions # {}
      ]_vars

\* delete_object_group has returned invalid-argument: the group is in the
\* store, marked Deleting, with a child a DatasetVersion refers to.
C32_Witness ==
    /\ ret.op = "delete_object_group" /\ ret.res = "invalid_argument"
    /\ groups[ret.id].status = "Deleting"
    /\ \E r \in Revs :
        /\ revisions[r].object_group_id = ret.id
        /\ Stored(revisions[r])
        /\ revisions[r].dataset_versions # {}

(***************************************************************************)
(* Deleting a revision whose objects the object store does not delete.     *)
(***************************************************************************)
\* C33: the step that removes a revision document happens only when the
\* object store has deleted every object of the revision; the
\* delete_object_revision that returns the object store's error leaves the
\* revision in the store with status Deleting, and some object of it is
\* still in the object store unless another call deleted it.
C33_RevisionAfterObjects ==
    [][ /\ \A r \in Revs :
             (Stored(revisions[r]) /\ ~Stored(revisions'[r]))
                 => ObjectsOf(r) \subseteq s3deleted
        /\ (ret'.op = "delete_object_revision" /\ ret'.res = "internal")
             => /\ Stored(revisions'[ret'.id])
                /\ revisions'[ret'.id].status = "Deleting"
                /\ revisions' = revisions
      ]_vars

\* delete_object_revision has returned the error of a delete_object: the
\* revision is in the store, Deleting, and an object of it was not deleted.
C33_Witness ==
    /\ ret.op = "delete_object_revision" /\ ret.res = "internal"
    /\ revisions[ret.id].status = "Deleting"
    /\ ~(ObjectsOf(ret.id) \subseteq s3deleted)
    /\ ObjectsOf(ret.id) \subseteq ret.issued

(***************************************************************************)
(* Appending to a group when the insert of the revision fails.             *)
(***************************************************************************)
\* The append on g that returned the store's error would have had number n.
LostNumber(g, n) ==
    /\ ret.op = "create_revision_for_group" /\ ret.res = "internal"
    /\ ret.was # "none"
    /\ ret.id = g /\ ret.n = n

\* C34: the append whose insert fails leaves revision_counter as its $inc
\* made it; from then on the counter stays above the lost number, no
\* revision of the group and no append in flight has that number, every
\* append that starts takes the counter's value as its number, and a
\* delete_object_group on the group returns Ok unless a revision it read
\* was removed under it by another delete.
C34_LostNumber ==
    /\ [][ /\ (ret'.op = "create_revision_for_group"
                  /\ ret'.res = "internal" /\ ret'.was # "none")
               => /\ groups' = groups
                  /\ groups[ret'.id].revision_counter > ret'.n
           /\ \A k \in BagToSet(calls') \ InFlight :
                 k.op = "create_revision_for_group"
                     => /\ k.object_group.revision_counter
                             = groups[k.id].revision_counter
                        /\ groups'[k.id].revision_counter
                             = groups[k.id].revision_counter + 1
         ]_vars
    /\ \A g \in Groups, n \in 0..(MaxRevs + MaxFailures) :
         [](LostNumber(g, n) =>
              [](/\ groups[g].revision_counter > n
                 /\ \A r \in Revs :
                       (HandedOut(revisions[r])
                            /\ revisions[r].object_group_id = g)
                           => revisions[r].revision # n
                 /\ \A k \in InFlight :
                       (k.op = "create_revision_for_group" /\ k.id = g)
                           => k.object_group.revision_counter # n
                 /\ (ret.op = "delete_object_group" /\ ret.id = g)
                       => ret.res \in {"ok", "not_found"}))

\* After an append on a group lost its number, a later append was stored
\* and delete_object_group has removed the group and returned Ok.
C34_Witness ==
    /\ ret.op = "delete_object_group" /\ ret.res = "ok"
    /\ groups[ret.id].status = "removed"
    /\ LostNumbers(ret.id) > 0
    /\ \E r \in Revs :
          /\ revisions[r].object_group_id = ret.id
          /\ revisions[r].status = "removed"
          /\ revisions[r].revision > 0

(***************************************************************************)
(* Revision numbers and deleted revisions.                                 *)
(***************************************************************************)
\* C35: no step lowers the revision_counter of a group, and the step that
\* inserts a revision for a group gives it a number that no revision ever
\* inserted for the group has, the removed ones included.
C35_NumbersNeverReused ==
    [][ /\ \A g \in Groups :
             groups'[g].revision_counter >= groups[g].revision_counter
        /\ \A r \in Revs :
             (~HandedOut(revisions[r]) /\ HandedOut(revisions'[r]))
                => \A x \in InsertedFor(revisions'[r].object_group_id) :
                       revisions[x].revision # revisions'[r].revision
      ]_vars

\* The revision with number 0 was deleted and the group's next revision has
\* number 1.
C35_Witness ==
    \E g \in Groups : \E r1, r2 \in InsertedFor(g) :
        /\ revisions[r1].status = "removed" /\ revisions[r1].revision = 0
        /\ Stored(revisions[r2]) /\ revisions[r2].revision = 1
        /\ ret.op = "create_revision_for_group" /\ ret.id = r2
        /\ groups[g].revision_counter = 2

(***************************************************************************)
(* delete_object_group and a concurrent append.                            *)
(***************************************************************************)
\* C36: when delete_object_group(g) has returned Ok, no revision whose
\* object_group_id is g is in the store.
C36_NoRevisionAfterGroupDelete ==
    (ret.op = "delete_object_group" /\ ret.res = "ok")
        => StoredFor(ret.id) = {}

(***************************************************************************)
(* The current revision of a group.                                        *)
(***************************************************************************)
\* C39: a read_current_revision(g) during which g has had the same, at least
\* one, stored revisions returns Ok with a revision of g that has the largest
\* number.
C39_CurrentIsNewest ==
    [][ \A k \in InFlight :
          (/\ k.op = "read_current_revision" /\ StepOf(k)
           /\ k.rids # {}
           /\ k.rids = StoredFor(k.id))
              => /\ ret'.res = "ok"
                 /\ ret'.saw \subseteq Newest(k.id)
      ]_vars

(***************************************************************************)
(* delete_dataset after releases.                                          *)
(***************************************************************************)
\* C38: with calls made one after the other and a store and an object store
\* that do not fail, every delete_dataset returns Ok.
C38_DeleteDatasetSucceeds ==
    ret.op = "delete_dataset" => ret.res = "ok"

(***************************************************************************)
(* delete_dataset_version and the other versions of a revision.            *)
(***************************************************************************)
\* C37: the update of a delete_dataset_version(v) takes v, and nothing
\* else, out of the dataset_versions of every stored revision and changes
\* no other document; a delete_object_revision that reads a revision whose
\* dataset_versions still has an id returns invalid-argument and the
\* revision stays.
C37_PullOnlyThatVersion ==
    [][ \A k \in InFlight :
        /\ (/\ k.op = "delete_dataset_version" /\ StepOf(k)
            /\ Job(k, "ver", k.id) = "pull")
              => \A r \in Revs :
                    revisions'[r] =
                        IF Stored(revisions[r])
                        THEN [revisions[r] EXCEPT
                                 !.dataset_versions = @ \ {k.id}]
                        ELSE revisions[r]
        /\ (/\ k.op = "delete_object_revision" /\ StepOf(k)
            /\ Job(k, "rev", k.id) = "read"
            /\ Stored(revisions[k.id])
            /\ revisions[k.id].dataset_versions # {})
              => /\ ret'.res = "invalid_argument"
                 /\ ret'.saw = revisions[k.id].dataset_versions
                 /\ revisions' = revisions
      ]_vars

\* A delete_dataset_version has taken its version out of a revision that
\* another version lists too, and a delete_object_revision that read the
\* revision after that has returned invalid-argument for the version left.
C37_Witness ==
    \E k \in InFlight :
        /\ k.op = "delete_dataset_version"
        /\ Job(k, "ver", k.id) = "delete"
        /\ ret.op = "delete_object_revision"
        /\ ret.res = "invalid_argument"
        /\ ret.id \in k.rids
        /\ ret.saw # {} /\ k.id \notin ret.saw
        /\ revisions[ret.id].dataset_versions = ret.saw

====
